---- MODULE Spec2Model ----
(***************************************************************************)
(* A model of transome: the model registry (src/src/config.rs), the        *)
(* command line resolver (src/src/cli.rs), the library entry points        *)
(* (src/src/lib.rs), the translator (src/src/translator.rs) and the binary *)
(* (src/src/main.rs).                                                      *)
(*                                                                         *)
(* A Rust string is modelled as the sequence of its characters.  An ASCII  *)
(* character is the one-character string holding it ("\n", "\t", "\r" and  *)
(* "\f" for the control characters that have an escape); every other       *)
(* character, and the grave accent, is the string "U+XXXX" of its code     *)
(* point.  So "gpt-4" is <<"g", "p", "t", "-", "4">> and a literal of the  *)
(* source that holds Chinese text is the sequence of its code points.      *)
(***************************************************************************)
EXTENDS Integers, Sequences, FiniteSets, TLC

VARIABLES
    cli,    \* the parsed command line: the fields of struct Cli (cli.rs 14-37)
    env,    \* the process environment: variable name -> its state
    op,     \* the operation that has been applied ("init": none yet)
    ret,    \* what the operation returned
    reads,  \* the environment variables the operation has read
    call,   \* one call of Translator::translate: its receiver, its arguments,
            \* where it stands, the reply it was given and what it returned
    sent,   \* the requests handed to the client, in the order they were sent
    once,   \* the OnceLock of the registry, static MODEL_TO_URL (config.rs 30)
    threads,\* the threads that access the registry: where each stands and
            \* what it has seen
    proc    \* the process of the binary (main.rs): where main stands, what
            \* it has printed and its exit status

vars == <<cli, env, op, ret, reads, call, sent, once, threads, proc>>

(***************************************************************************)
(* Bounds of the model.                                                    *)
(***************************************************************************)
\* whitespace-only strings of length 0..MaxPad are tried as text and as
\* environment values
MaxPad == 1
\* the iteration orders tried for the registry's HashMap: the table order
\* read with the strides 1..MaxStride, each rotated by 0..MaxRot places, and
\* the reverse of the table order
MaxRot == 1
MaxStride == 2

(***************************************************************************)
(* Option and Result.                                                      *)
(***************************************************************************)
None == [tag |-> "None"]
Some(v) == [tag |-> "Some", val |-> v]
Ok(v) == [tag |-> "Ok", val |-> v]
Err(e) == [tag |-> "Err", err |-> e]
\* the value of type ()
Unit == <<>>

(***************************************************************************)
(* str: the operations of the standard library the program uses.           *)
(***************************************************************************)
\* char::is_whitespace: the characters with the Unicode property White_Space
WHITE_SPACE ==
    {"\t", "\n", "U+000B", "\f", "\r", " ", "U+0085", "U+00A0", "U+1680",
     "U+2000", "U+2001", "U+2002", "U+2003", "U+2004", "U+2005", "U+2006",
     "U+2007", "U+2008", "U+2009", "U+200A", "U+2028", "U+2029", "U+202F",
     "U+205F", "U+3000"}

is_whitespace(c) == c \in WHITE_SPACE

RECURSIVE trim_start(_)
trim_start(s) ==
    IF Len(s) > 0 /\ is_whitespace(s[1]) THEN trim_start(Tail(s)) ELSE s

RECURSIVE trim_end(_)
trim_end(s) ==
    IF Len(s) > 0 /\ is_whitespace(s[Len(s)])
    THEN trim_end(SubSeq(s, 1, Len(s) - 1))
    ELSE s

\* str::trim
trim(s) == trim_end(trim_start(s))

\* str::is_empty
is_empty(s) == Len(s) = 0

\* str::contains with a str pattern
contains(s, pat) ==
    \E i \in 0..(Len(s) - Len(pat)) : SubSeq(s, i + 1, i + Len(pat)) = pat

\* str::starts_with
starts_with(s, pat) ==
    Len(pat) <= Len(s) /\ SubSeq(s, 1, Len(pat)) = pat

\* the printable ASCII characters, in code order from 32 (space)
ASCII ==
    <<" ", "!", "\"", "#", "$", "%", "&", "'", "(", ")", "*", "+", ",", "-", ".", "/", "0",
      "1", "2", "3", "4", "5", "6", "7", "8", "9", ":", ";", "<", "=", ">", "?", "@", "A",
      "B", "C", "D", "E", "F", "G", "H", "I", "J", "K", "L", "M", "N", "O", "P", "Q", "R",
      "S", "T", "U", "V", "W", "X", "Y", "Z", "[", "\\", "]", "^", "_", "U+0060", "a", "b",
      "c", "d", "e", "f", "g", "h", "i", "j", "k", "l", "m", "n", "o", "p", "q", "r", "s",
      "t", "u", "v", "w", "x", "y", "z", "{", "|", "}", "~">>

\* the UTF-8 byte of an ASCII character
byte(c) == 31 + (CHOOSE i \in 1..Len(ASCII) : ASCII[i] = c)

\* Ord for str, a <= b: lexicographic by bytes (the names compared are ASCII)
RECURSIVE str_le(_, _)
str_le(a, b) ==
    IF Len(a) = 0 THEN TRUE
    ELSE IF Len(b) = 0 THEN FALSE
    ELSE IF a[1] = b[1] THEN str_le(Tail(a), Tail(b))
    ELSE byte(a[1]) < byte(b[1])

\* [T]::join for a Vec of str
RECURSIVE join(_, _)
join(v, sep) ==
    IF Len(v) = 0 THEN <<>>
    ELSE IF Len(v) = 1 THEN v[1]
    ELSE v[1] \o sep \o join(Tail(v), sep)

\* the stable sort of the standard library, for elements that are tuples
\* ordered by their first component (a str): insert places x after every
\* element that is not greater
RECURSIVE insert(_, _)
insert(sorted, x) ==
    IF Len(sorted) = 0 THEN <<x>>
    ELSE IF str_le(sorted[1][1], x[1]) THEN <<sorted[1]>> \o insert(Tail(sorted), x)
    ELSE <<x>> \o sorted

\* Variant of sort_by_key that leaves the Vec as it is.
sort_by_key_unsorted(v) == v

RECURSIVE sort_by_key(_)
sort_by_key(v) ==
    IF Len(v) = 0 THEN <<>>
    ELSE insert(sort_by_key(SubSeq(v, 1, Len(v) - 1)), v[Len(v)])

(***************************************************************************)
(* config.rs: the model registry.                                          *)
(***************************************************************************)
\* the endpoint written for every Gemini model
GEMINI_OPENAI_URL ==
    <<"h", "t", "t", "p", "s", ":", "/", "/", "g", "e", "n", "e", "r", "a", "t", "i", "v",
      "e", "l", "a", "n", "g", "u", "a", "g", "e", ".", "g", "o", "o", "g", "l", "e", "a",
      "p", "i", "s", ".", "c", "o", "m", "/", "v", "1", "b", "e", "t", "a", "/", "o", "p",
      "e", "n", "a", "i">>

\* the endpoint written for every OpenAI model
OPENAI_URL ==
    <<"h", "t", "t", "p", "s", ":", "/", "/", "a", "p", "i", ".", "o", "p", "e", "n", "a",
      "i", ".", "c", "o", "m", "/", "v", "1">>

\* the pairs (model, url) of the table, in the order they are written
MODEL_TO_URL ==
    <<
      <<<<"g", "e", "m", "i", "n", "i", "-", "2", ".", "5", "-", "p", "r", "o">>,
        GEMINI_OPENAI_URL>>,
      <<<<"g", "e", "m", "i", "n", "i", "-", "2", ".", "5", "-", "f", "l", "a", "s", "h">>,
        GEMINI_OPENAI_URL>>,
      <<<<"g", "e", "m", "i", "n", "i", "-", "2", ".", "5", "-", "f", "l", "a", "s", "h", "-",
          "l", "i", "t", "e">>,
        GEMINI_OPENAI_URL>>,
      <<<<"g", "e", "m", "i", "n", "i", "-", "1", ".", "5", "-", "p", "r", "o">>,
        GEMINI_OPENAI_URL>>,
      <<<<"g", "e", "m", "i", "n", "i", "-", "1", ".", "5", "-", "f", "l", "a", "s", "h">>,
        GEMINI_OPENAI_URL>>,
      <<<<"g", "p", "t", "-", "4">>,
        OPENAI_URL>>,
      <<<<"g", "p", "t", "-", "4", "-", "t", "u", "r", "b", "o">>,
        OPENAI_URL>>,
      <<<<"g", "p", "t", "-", "4", "o">>,
        OPENAI_URL>>,
      <<<<"g", "p", "t", "-", "4", "o", "-", "m", "i", "n", "i">>,
        OPENAI_URL>>,
      <<<<"g", "p", "t", "-", "3", ".", "5", "-", "t", "u", "r", "b", "o">>,
        OPENAI_URL>>,
      <<<<"g", "p", "t", "-", "3", ".", "5", "-", "t", "u", "r", "b", "o", "-", "1", "6", "k">>,
        OPENAI_URL>>
    >>

\* the HashMap built from the table: model -> url
get_model_to_url ==
    [m \in {MODEL_TO_URL[i][1] : i \in DOMAIN MODEL_TO_URL} |->
        (CHOOSE p \in {MODEL_TO_URL[i] : i \in DOMAIN MODEL_TO_URL} : p[1] = m)[2]]

\* Variant of get_model_url that trims the name before the lookup.
get_model_url_trimmed(model) ==
    IF trim(model) \in DOMAIN get_model_to_url
    THEN Some(get_model_to_url[trim(model)])
    ELSE None

get_model_url(model) ==
    IF model \in DOMAIN get_model_to_url
    THEN Some(get_model_to_url[model])
    ELSE None

GOOGLE_GEMINI ==
    <<"G", "o", "o", "g", "l", "e", " ", "G", "e", "m", "i", "n", "i">>
OPENAI ==
    <<"O", "p", "e", "n", "A", "I">>
OTHER_PROVIDER ==
    <<"O", "t", "h", "e", "r">>

\* Variant of get_provider_name that compares the URL with the endpoints
\* instead of searching the hosts in it.
get_provider_name_exact(model_or_url) ==
    LET url == IF get_model_url(model_or_url).tag = "Some"
               THEN get_model_url(model_or_url).val
               ELSE model_or_url
    IN  IF url = GEMINI_OPENAI_URL THEN GOOGLE_GEMINI
        ELSE IF url = OPENAI_URL THEN OPENAI
        ELSE OTHER_PROVIDER

get_provider_name(model_or_url) ==
    LET url == IF get_model_url(model_or_url).tag = "Some"
               THEN get_model_url(model_or_url).val
               ELSE model_or_url
    IN  IF contains(url, <<"g", "e", "n", "e", "r", "a", "t", "i", "v", "e", "l", "a", "n", "g", "u", "a", "g",
                          "e", ".", "g", "o", "o", "g", "l", "e", "a", "p", "i", "s", ".", "c", "o", "m">>)
        THEN GOOGLE_GEMINI
        ELSE IF contains(url, <<"a", "p", "i", ".", "o", "p", "e", "n", "a", "i", ".", "c", "o", "m">>)
        THEN OPENAI
        ELSE OTHER_PROVIDER

\* An iteration of a HashMap visits its entries in an order the program does
\* not control.  iter is such an order of the registry: a sequence of its
\* (model, url) entries.
Rotate(s, k) == [i \in 1..Len(s) |-> s[((i - 1 + k) % Len(s)) + 1]]
Reverse(s) == [i \in 1..Len(s) |-> s[Len(s) + 1 - i]]
\* every order of the entries is possible: the hasher of the HashMap is
\* seeded at random in every process
IterOrders ==
    {iter \in [1..Len(MODEL_TO_URL) -> {MODEL_TO_URL[i] : i \in DOMAIN MODEL_TO_URL}] :
        \A i, j \in 1..Len(MODEL_TO_URL) : i # j => iter[i] # iter[j]}

\* s read with stride k: a permutation of s when k and Len(s) have no common
\* divisor (the table has 11 entries, a prime)
Stride(s, k) == [i \in 1..Len(s) |-> s[(((i - 1) * k) % Len(s)) + 1]]

\* the orders of IterOrders that are tried
TriedOrders ==
    {Rotate(Stride(MODEL_TO_URL, k), r) : k \in 1..MaxStride, r \in 0..MaxRot}
        \cup {Reverse(MODEL_TO_URL)}

\* the HashMap provider -> Vec<(model, url)>, filled in the order iter
RECURSIVE group_models_by_provider(_)
group_models_by_provider(iter) ==
    IF Len(iter) = 0 THEN [p \in {} |-> <<>>]
    ELSE LET providers == group_models_by_provider(SubSeq(iter, 1, Len(iter) - 1))
             entry == iter[Len(iter)]
             provider == get_provider_name(entry[1])
             old == IF provider \in DOMAIN providers THEN providers[provider] ELSE <<>>
         IN  [p \in DOMAIN providers \cup {provider} |->
                 IF p = provider THEN Append(old, entry) ELSE providers[p]]

\* the orders in which the HashMap of the providers can be iterated
RECURSIVE Orderings(_)
Orderings(S) ==
    IF S = {} THEN {<<>>}
    ELSE UNION {{<<x>> \o t : t \in Orderings(S \ {x})} : x \in S}

\* iter: the iteration order of the registry; piter: the iteration order
\* of the providers' HashMap, an ordering of its keys
get_sorted_providers_with_models(iter, piter) ==
    LET providers == group_models_by_provider(iter)
        collected == [i \in 1..Len(piter) |-> <<piter[i], providers[piter[i]]>>]
        sorted_providers == sort_by_key(collected)
    IN  [i \in 1..Len(sorted_providers) |->
            <<sorted_providers[i][1], sort_by_key(sorted_providers[i][2])>>]

\* the iterations a call can meet: an order iter of the registry with an
\* order piter of the providers grouped from it
IterCases ==
    {it \in [iter : IterOrders,
             piter : UNION {Orderings(P) :
                               P \in SUBSET {GOOGLE_GEMINI, OPENAI, OTHER_PROVIDER}}] :
        it.piter \in Orderings(DOMAIN group_models_by_provider(it.iter))}

\* the cases of IterCases that are tried
TriedCases ==
    UNION {{[iter |-> iter, piter |-> piter] :
                piter \in Orderings(DOMAIN group_models_by_provider(iter))} :
           iter \in TriedOrders}

ModelConfig(name, url, provider) == [name |-> name, url |-> url, provider |-> provider]

\* sort_by of get_all_models: by provider, then by name (stable insertion)
model_config_le(a, b) ==
    IF a.provider = b.provider THEN str_le(a.name, b.name)
    ELSE str_le(a.provider, b.provider)

RECURSIVE insert_config(_, _)
insert_config(sorted, x) ==
    IF Len(sorted) = 0 THEN <<x>>
    ELSE IF model_config_le(sorted[1], x)
    THEN <<sorted[1]>> \o insert_config(Tail(sorted), x)
    ELSE <<x>> \o sorted

RECURSIVE sort_configs(_)
\* Variant of sort_configs that leaves the vector in the order of the
\* iteration.
sort_configs_unsorted(v) == v

sort_configs(v) ==
    IF Len(v) = 0 THEN <<>>
    ELSE insert_config(sort_configs(SubSeq(v, 1, Len(v) - 1)), v[Len(v)])

get_all_models(iter) ==
    sort_configs([i \in 1..Len(iter) |->
        ModelConfig(iter[i][1], iter[i][2], get_provider_name(iter[i][1]))])

\* the names of a Vec<(model, url)>
names_of(models) == [i \in 1..Len(models) |-> models[i][1]]

\* the text pushed for the providers sorted[k..]
RECURSIVE provider_lines(_)
provider_lines(sorted) ==
    IF Len(sorted) = 0 THEN <<>>
    ELSE <<"\n", "\n">>
         \o sorted[1][1]
         \o <<":", " ">>
         \o join(names_of(sorted[1][2]), <<",", " ">>)
         \o provider_lines(Tail(sorted))

\* the text the message starts with (line 169)
model_error_header(model) ==
    <<"U+627E", "U+4E0D", "U+5230", "U+6A21", "U+578B", " ", "'">>
    \o model
    \o <<"'", "\n", "\n", "U+652F", "U+6301", "U+7684", "U+6A21", "U+578B", ":">>

\* the text pushed after the providers (lines 176-179)
model_error_usage ==
    <<"\n", "\n", "U+4F7F", "U+7528", "U+65B9", "U+6CD5", ":">>
    \o <<"\n", " ", " ", "U+4F7F", "U+7528", "U+652F", "U+6301", "U+7684", "U+6A21", "U+578B",
      ":", " ", "t", "r", "a", "n", "s", "o", "m", "e", " ", "-", "m", " ", "<", "U+6A21",
      "U+578B", "U+540D", "U+79F0", ">", " ", "\"", "<", "U+6587", "U+672C", ">", "\"">>
    \o <<"\n", " ", " ", "U+6216", "U+63D0", "U+4F9B", "U+81EA", "U+5B9A", "U+4E49", " ", "U",
      "R", "L", ":", " ", "t", "r", "a", "n", "s", "o", "m", "e", " ", "-", "u", " ", "<",
      "U", "R", "L", ">", " ", "-", "m", " ", "<", "U+6A21", "U+578B", "U+540D", "U+79F0",
      ">", " ", "\"", "<", "U+6587", "U+672C", ">", "\"">>
    \o <<"\n", " ", " ", "U+5217", "U+51FA", "U+6240", "U+6709", "U+6A21", "U+578B", ":", " ",
      "t", "r", "a", "n", "s", "o", "m", "e", " ", "-", "-", "l", "i", "s", "t", "-", "m",
      "o", "d", "e", "l", "s">>

create_model_error_message(model, iter, piter) ==
    model_error_header(model)
    \o provider_lines(get_sorted_providers_with_models(iter, piter))
    \o model_error_usage

is_model_supported(model_name) == get_model_url(model_name).tag = "Some"

get_supported_model_names(iter) ==
    LET models == get_all_models(iter)
    IN  [i \in 1..Len(models) |-> models[i].name]

OPENAI_API_KEY ==
    <<"O", "P", "E", "N", "A", "I", "_", "A", "P", "I", "_", "K", "E", "Y">>
GOOGLE_AI_API_KEY ==
    <<"G", "O", "O", "G", "L", "E", "_", "A", "I", "_", "A", "P", "I", "_", "K", "E", "Y">>

get_env_var_name_for_model(model) ==
    LET provider == get_provider_name(model)
    IN  IF provider = OPENAI THEN Some(OPENAI_API_KEY)
        ELSE IF provider = GOOGLE_GEMINI THEN Some(GOOGLE_AI_API_KEY)
        ELSE None

(***************************************************************************)
(* The process environment, as std::env::var sees it.                      *)
(***************************************************************************)
Unset == [tag |-> "Unset"]
\* set to a value that is not valid Unicode
NotUnicode == [tag |-> "NotUnicode"]
SetTo(s) == [tag |-> "Set", val |-> s]

\* std::env::var(name): Ok(value), Err(NotPresent) or Err(NotUnicode)
env_var(e, name) ==
    IF e[name].tag = "Set" THEN Ok(e[name].val)
    ELSE IF e[name].tag = "Unset" THEN Err("NotPresent")
    ELSE Err("NotUnicode")

(***************************************************************************)
(* cli.rs: the resolver.  c is a Cli, e the environment.                   *)
(***************************************************************************)
\* the message of the error of lines 61-71
env_var_undetermined_message(model) ==
    <<"U+65E0", "U+6CD5", "U+4E3A", "U+6A21", "U+578B", " ", "'">>
    \o model
    \o <<"'", " ", "U+786E", "U+5B9A", "U+5BF9", "U+5E94", "U+7684", "U+73AF", "U+5883",
      "U+53D8", "U+91CF", "U+3002", "\n", "\n", "U+652F", "U+6301", "U+7684", "U+6A21",
      "U+578B", "U+53CA", "U+5176", "U+73AF", "U+5883", "U+53D8", "U+91CF", "U+FF1A", "\n",
      "-", " ", "O", "p", "e", "n", "A", "I", " ", "U+6A21", "U+578B", " ", "(", "g", "p",
      "t", "-", "4", ",", " ", "g", "p", "t", "-", "4", "o", ",", " ", "g", "p", "t", "-",
      "3", ".", "5", "-", "t", "u", "r", "b", "o", " ", "U+7B49", ")", ":", " ", "O", "P",
      "E", "N", "A", "I", "_", "A", "P", "I", "_", "K", "E", "Y", "\n", "-", " ", "G", "o",
      "o", "g", "l", "e", " ", "G", "e", "m", "i", "n", "i", " ", "U+6A21", "U+578B", " ",
      "(", "g", "e", "m", "i", "n", "i", "-", "2", ".", "5", "-", "f", "l", "a", "s", "h",
      ",", " ", "g", "e", "m", "i", "n", "i", "-", "1", ".", "5", "-", "p", "r", "o", " ",
      "U+7B49", ")", ":", " ", "G", "O", "O", "G", "L", "E", "_", "A", "I", "_", "A", "P",
      "I", "_", "K", "E", "Y", "\n", "\n", "U+89E3", "U+51B3", "U+65B9", "U+6CD5", "U+FF1A",
      "\n", "1", ".", " ", "U+4F7F", "U+7528", "U+652F", "U+6301", "U+7684", "U+6A21",
      "U+578B", ":", " ", "t", "r", "a", "n", "s", "o", "m", "e", " ", "-", "m", " ", "<",
      "U+652F", "U+6301", "U+7684", "U+6A21", "U+578B", "U+540D", "U+79F0", ">", " ", "<",
      "U+6587", "U+672C", ">", "\n", "2", ".", " ", "U+624B", "U+52A8", "U+63D0", "U+4F9B",
      " ", "A", "P", "I", " ", "U+5BC6", "U+94A5", ":", " ", "t", "r", "a", "n", "s", "o",
      "m", "e", " ", "-", "k", " ", "<", "y", "o", "u", "r", "_", "a", "p", "i", "_", "k",
      "e", "y", ">", " ", "-", "m", " ">>
    \o model
    \o <<" ", "<", "U+6587", "U+672C", ">", "\n", "3", ".", " ", "U+67E5", "U+770B", "U+6240",
      "U+6709", "U+652F", "U+6301", "U+7684", "U+6A21", "U+578B", ":", " ", "t", "r", "a",
      "n", "s", "o", "m", "e", " ", "-", "-", "l", "i", "s", "t", "-", "m", "o", "d", "e",
      "l", "s">>

\* the message of the bail! of lines 79-90
env_var_empty_message(env_var_name, model) ==
    <<"U+73AF", "U+5883", "U+53D8", "U+91CF", " ">>
    \o env_var_name
    \o <<" ", "U+5DF2", "U+8BBE", "U+7F6E", "U+4F46", "U+4E3A", "U+7A7A", "U+3002", "\n", "\n",
      "U+89E3", "U+51B3", "U+65B9", "U+6CD5", "U+FF1A", "\n", "1", ".", " ", "U+8BBE",
      "U+7F6E", "U+73AF", "U+5883", "U+53D8", "U+91CF", ":", " ", "e", "x", "p", "o", "r",
      "t", " ">>
    \o env_var_name
    \o <<"=", "<", "y", "o", "u", "r", "_", "a", "p", "i", "_", "k", "e", "y", ">", "\n", "2",
      ".", " ", "U+6216", "U+8005", "U+624B", "U+52A8", "U+63D0", "U+4F9B", "U+5BC6",
      "U+94A5", ":", " ", "t", "r", "a", "n", "s", "o", "m", "e", " ", "-", "k", " ", "<",
      "y", "o", "u", "r", "_", "a", "p", "i", "_", "k", "e", "y", ">", " ", "-", "m", " ">>
    \o model
    \o <<" ", "<", "U+6587", "U+672C", ">", "\n", "\n", "U+83B7", "U+53D6", " ", "A", "P", "I",
      " ", "U+5BC6", "U+94A5", "U+7684", "U+65B9", "U+6CD5", "U+FF1A", "\n", "-", " ", "O",
      "p", "e", "n", "A", "I", " ", "A", "P", "I", " ", "U+5BC6", "U+94A5", ":", " ", "h",
      "t", "t", "p", "s", ":", "/", "/", "p", "l", "a", "t", "f", "o", "r", "m", ".", "o",
      "p", "e", "n", "a", "i", ".", "c", "o", "m", "/", "a", "p", "i", "-", "k", "e", "y",
      "s", "\n", "-", " ", "G", "o", "o", "g", "l", "e", " ", "A", "I", " ", "A", "P", "I",
      " ", "U+5BC6", "U+94A5", ":", " ", "h", "t", "t", "p", "s", ":", "/", "/", "a", "i",
      "s", "t", "u", "d", "i", "o", ".", "g", "o", "o", "g", "l", "e", ".", "c", "o", "m",
      "/", "a", "p", "p", "/", "a", "p", "i", "k", "e", "y">>

\* the message of the bail! of lines 94-105
env_var_not_set_message(env_var_name, model) ==
    <<"U+73AF", "U+5883", "U+53D8", "U+91CF", " ">>
    \o env_var_name
    \o <<" ", "U+672A", "U+8BBE", "U+7F6E", "U+3002", "\n", "\n", "U+89E3", "U+51B3", "U+65B9",
      "U+6CD5", "U+FF1A", "\n", "1", ".", " ", "U+8BBE", "U+7F6E", "U+73AF", "U+5883",
      "U+53D8", "U+91CF", ":", " ", "e", "x", "p", "o", "r", "t", " ">>
    \o env_var_name
    \o <<"=", "<", "y", "o", "u", "r", "_", "a", "p", "i", "_", "k", "e", "y", ">", "\n", "2",
      ".", " ", "U+6216", "U+8005", "U+624B", "U+52A8", "U+63D0", "U+4F9B", "U+5BC6",
      "U+94A5", ":", " ", "t", "r", "a", "n", "s", "o", "m", "e", " ", "-", "k", " ", "<",
      "y", "o", "u", "r", "_", "a", "p", "i", "_", "k", "e", "y", ">", " ", "-", "m", " ">>
    \o model
    \o <<" ", "<", "U+6587", "U+672C", ">", "\n", "\n", "U+83B7", "U+53D6", " ", "A", "P", "I",
      " ", "U+5BC6", "U+94A5", "U+7684", "U+65B9", "U+6CD5", "U+FF1A", "\n", "-", " ", "O",
      "p", "e", "n", "A", "I", " ", "A", "P", "I", " ", "U+5BC6", "U+94A5", ":", " ", "h",
      "t", "t", "p", "s", ":", "/", "/", "p", "l", "a", "t", "f", "o", "r", "m", ".", "o",
      "p", "e", "n", "a", "i", ".", "c", "o", "m", "/", "a", "p", "i", "-", "k", "e", "y",
      "s", "\n", "-", " ", "G", "o", "o", "g", "l", "e", " ", "A", "I", " ", "A", "P", "I",
      " ", "U+5BC6", "U+94A5", ":", " ", "h", "t", "t", "p", "s", ":", "/", "/", "a", "i",
      "s", "t", "u", "d", "i", "o", ".", "g", "o", "o", "g", "l", "e", ".", "c", "o", "m",
      "/", "a", "p", "p", "/", "a", "p", "i", "k", "e", "y">>

\* Variant of resolve_api_key that prefers the environment variable of the
\* model to the explicit key.
resolve_api_key_env_first(c, e) ==
    LET env_var_name == get_env_var_name_for_model(c.model)
        key == IF env_var_name.tag = "Some" THEN env_var(e, env_var_name.val)
               ELSE Err("NotPresent")
    IN  IF key.tag = "Ok" /\ ~is_empty(trim(key.val))
        THEN [ret |-> Ok(key.val), reads |-> {env_var_name.val}]
        ELSE IF c.key.tag = "Some"
        THEN [ret |-> Ok(c.key.val), reads |-> {}]
        ELSE [ret |-> Err(env_var_undetermined_message(c.model)), reads |-> {}]

\* Variant of resolve_api_key that tests the value without trimming it.
resolve_api_key_no_trim(c, e) ==
    IF c.key.tag = "Some"
    THEN [ret |-> Ok(c.key.val), reads |-> {}]
    ELSE LET env_var_name == get_env_var_name_for_model(c.model)
         IN  IF env_var_name.tag = "None"
             THEN [ret |-> Err(env_var_undetermined_message(c.model)), reads |-> {}]
             ELSE LET key == env_var(e, env_var_name.val)
                  IN  [ret |->
                          IF key.tag = "Ok" /\ ~is_empty(key.val)
                          THEN Ok(key.val)
                          ELSE IF key.tag = "Ok"
                          THEN Err(env_var_empty_message(env_var_name.val, c.model))
                          ELSE Err(env_var_not_set_message(env_var_name.val, c.model)),
                       reads |-> {env_var_name.val}]

\* Variant of resolve_api_key that falls back to the other provider's
\* variable when the variable of the model holds no key.
resolve_api_key_fallback(c, e) ==
    IF c.key.tag = "Some"
    THEN [ret |-> Ok(c.key.val), reads |-> {}]
    ELSE LET env_var_name == get_env_var_name_for_model(c.model)
         IN  IF env_var_name.tag = "None"
             THEN [ret |-> Err(env_var_undetermined_message(c.model)), reads |-> {}]
             ELSE LET key == env_var(e, env_var_name.val)
                      other == CHOOSE n \in DOMAIN e : n # env_var_name.val
                      other_key == env_var(e, other)
                  IN  IF key.tag = "Ok" /\ ~is_empty(trim(key.val))
                      THEN [ret |-> Ok(key.val), reads |-> {env_var_name.val}]
                      ELSE IF other_key.tag = "Ok" /\ ~is_empty(trim(other_key.val))
                      THEN [ret |-> Ok(other_key.val), reads |-> DOMAIN e]
                      ELSE [ret |->
                               IF key.tag = "Ok"
                               THEN Err(env_var_empty_message(env_var_name.val, c.model))
                               ELSE Err(env_var_not_set_message(env_var_name.val, c.model)),
                            reads |-> DOMAIN e]

\* ret: the Result<String>; reads: the environment variables read on the way
resolve_api_key(c, e) ==
    IF c.key.tag = "Some"
    THEN [ret |-> Ok(c.key.val), reads |-> {}]
    ELSE LET env_var_name == get_env_var_name_for_model(c.model)
         IN  IF env_var_name.tag = "None"
             THEN [ret |-> Err(env_var_undetermined_message(c.model)), reads |-> {}]
             ELSE LET key == env_var(e, env_var_name.val)
                  IN  [ret |->
                          IF key.tag = "Ok" /\ ~is_empty(trim(key.val))
                          THEN Ok(key.val)
                          ELSE IF key.tag = "Ok"
                          THEN Err(env_var_empty_message(env_var_name.val, c.model))
                          ELSE Err(env_var_not_set_message(env_var_name.val, c.model)),
                       reads |-> {env_var_name.val}]

\* Variant of resolve_url that prefers the registry's URL of a registered
\* model to the explicit URL.
resolve_url_registry_first(c, iter, piter) ==
    IF get_model_url(c.model).tag = "Some" THEN Ok(get_model_url(c.model).val)
    ELSE IF c.url.tag = "Some" THEN Ok(c.url.val)
    ELSE Err(create_model_error_message(c.model, iter, piter))

resolve_url(c, iter, piter) ==
    IF c.url.tag = "Some" THEN Ok(c.url.val)
    ELSE IF get_model_url(c.model).tag = "Some" THEN Ok(get_model_url(c.model).val)
    ELSE Err(create_model_error_message(c.model, iter, piter))

\* the message of the bail! of lines 147-151
text_empty_message ==
    <<"U+8981", "U+7FFB", "U+8BD1", "U+7684", "U+6587", "U+672C", "U+4E0D", "U+80FD",
      "U+4E3A", "U+7A7A", "\n", "\n", "U+4F7F", "U+7528", "U+65B9", "U+6CD5", ":", " ", "t",
      "r", "a", "n", "s", "o", "m", "e", " ", "[", "U+9009", "U+9879", "]", " ", "<",
      "U+6587", "U+672C", ">", "\n", "\n", "U+83B7", "U+53D6", "U+66F4", "U+591A", "U+4FE1",
      "U+606F", "U+FF0C", "U+4F7F", "U+7528", ":", " ", "t", "r", "a", "n", "s", "o", "m",
      "e", " ", "-", "-", "h", "e", "l", "p">>

\* the message of the bail! of lines 155-159
text_required_message ==
    <<"U+8981", "U+7FFB", "U+8BD1", "U+7684", "U+6587", "U+672C", "U+662F", "U+5FC5",
      "U+9700", "U+7684", "\n", "\n", "U+4F7F", "U+7528", "U+65B9", "U+6CD5", ":", " ", "t",
      "r", "a", "n", "s", "o", "m", "e", " ", "[", "U+9009", "U+9879", "]", " ", "<",
      "U+6587", "U+672C", ">", "\n", "\n", "U+83B7", "U+53D6", "U+66F4", "U+591A", "U+4FE1",
      "U+606F", "U+FF0C", "U+4F7F", "U+7528", ":", " ", "t", "r", "a", "n", "s", "o", "m",
      "e", " ", "-", "-", "h", "e", "l", "p">>

\* the message of the map_err of lines 164-170, e the error it wraps
key_validation_message(e) ==
    <<"A", "P", "I", " ", "U+5BC6", "U+94A5", "U+9A8C", "U+8BC1", "U+5931", "U+8D25",
      "U+FF1A">>
    \o e
    \o <<"\n", "\n", "U+8BF7", "U+786E", "U+4FDD", "U+4E3A", "U+6240", "U+9009", "U+6A21",
      "U+578B", "U+8BBE", "U+7F6E", "U+4E86", "U+6B63", "U+786E", "U+7684", "U+73AF",
      "U+5883", "U+53D8", "U+91CF", "U+6216", "U+901A", "U+8FC7", " ", "-", "k", " ",
      "U+53C2", "U+6570", "U+63D0", "U+4F9B", "U+5BC6", "U+94A5", "U+3002">>

\* Variant of validate that checks the model before the key.
validate_model_first(c, e, iter, piter) ==
    IF c.list_models
    THEN [ret |-> Ok(Unit), reads |-> {}, checks |-> <<>>]
    ELSE IF c.text.tag = "Some" /\ is_empty(trim(c.text.val))
    THEN [ret |-> Err(text_empty_message), reads |-> {}, checks |-> <<"text">>]
    ELSE IF c.text.tag = "None"
    THEN [ret |-> Err(text_required_message), reads |-> {}, checks |-> <<"text">>]
    ELSE IF c.url.tag = "None" /\ ~is_model_supported(c.model)
    THEN [ret |-> Err(create_model_error_message(c.model, iter, piter)),
          reads |-> {}, checks |-> <<"text", "model">>]
    ELSE LET key == resolve_api_key(c, e)
         IN  IF key.ret.tag = "Err"
             THEN [ret |-> Err(key_validation_message(key.ret.err)),
                   reads |-> key.reads, checks |-> <<"text", "model", "key">>]
             ELSE [ret |-> Ok(Unit), reads |-> key.reads,
                   checks |-> <<"text", "model", "key">>]

\* Variant of validate that does not check the model.
validate_no_model_check(c, e, iter, piter) ==
    IF c.list_models
    THEN [ret |-> Ok(Unit), reads |-> {}, checks |-> <<>>]
    ELSE IF c.text.tag = "Some" /\ is_empty(trim(c.text.val))
    THEN [ret |-> Err(text_empty_message), reads |-> {}, checks |-> <<"text">>]
    ELSE IF c.text.tag = "None"
    THEN [ret |-> Err(text_required_message), reads |-> {}, checks |-> <<"text">>]
    ELSE LET key == resolve_api_key(c, e)
         IN  IF key.ret.tag = "Err"
             THEN [ret |-> Err(key_validation_message(key.ret.err)),
                   reads |-> key.reads, checks |-> <<"text", "key">>]
             ELSE [ret |-> Ok(Unit), reads |-> key.reads, checks |-> <<"text", "key">>]

\* Variant of validate that checks the text before it looks at list_models.
validate_text_before_list(c, e, iter, piter) ==
    IF c.text.tag = "Some" /\ is_empty(trim(c.text.val))
    THEN [ret |-> Err(text_empty_message), reads |-> {}, checks |-> <<"text">>]
    ELSE IF c.text.tag = "None"
    THEN [ret |-> Err(text_required_message), reads |-> {}, checks |-> <<"text">>]
    ELSE IF c.list_models
    THEN [ret |-> Ok(Unit), reads |-> {}, checks |-> <<"text">>]
    ELSE LET key == resolve_api_key(c, e)
         IN  IF key.ret.tag = "Err"
             THEN [ret |-> Err(key_validation_message(key.ret.err)),
                   reads |-> key.reads, checks |-> <<"text", "key">>]
             ELSE IF c.url.tag = "None" /\ ~is_model_supported(c.model)
             THEN [ret |-> Err(create_model_error_message(c.model, iter, piter)),
                   reads |-> key.reads, checks |-> <<"text", "key", "model">>]
             ELSE [ret |-> Ok(Unit), reads |-> key.reads,
                   checks |-> IF c.url.tag = "None" THEN <<"text", "key", "model">>
                              ELSE <<"text", "key">>]

\* Variant of validate that does not resolve the key.
validate_no_key_check(c, e, iter, piter) ==
    IF c.list_models
    THEN [ret |-> Ok(Unit), reads |-> {}, checks |-> <<>>]
    ELSE IF c.text.tag = "Some" /\ is_empty(trim(c.text.val))
    THEN [ret |-> Err(text_empty_message), reads |-> {}, checks |-> <<"text">>]
    ELSE IF c.text.tag = "None"
    THEN [ret |-> Err(text_required_message), reads |-> {}, checks |-> <<"text">>]
    ELSE IF c.url.tag = "None" /\ ~is_model_supported(c.model)
    THEN [ret |-> Err(create_model_error_message(c.model, iter, piter)),
          reads |-> {}, checks |-> <<"text", "model">>]
    ELSE [ret |-> Ok(Unit), reads |-> {},
          checks |-> IF c.url.tag = "None" THEN <<"text", "model">> ELSE <<"text">>]

\* ret: the Result<()>; reads: the environment variables read on the way;
\* checks: the checks that ran, in the order they ran
validate(c, e, iter, piter) ==
    IF c.list_models
    THEN [ret |-> Ok(Unit), reads |-> {}, checks |-> <<>>]
    ELSE IF c.text.tag = "Some" /\ is_empty(trim(c.text.val))
    THEN [ret |-> Err(text_empty_message), reads |-> {}, checks |-> <<"text">>]
    ELSE IF c.text.tag = "None"
    THEN [ret |-> Err(text_required_message), reads |-> {}, checks |-> <<"text">>]
    ELSE LET key == resolve_api_key(c, e)
         IN  IF key.ret.tag = "Err"
             THEN [ret |-> Err(key_validation_message(key.ret.err)),
                   reads |-> key.reads, checks |-> <<"text", "key">>]
             ELSE IF c.url.tag = "None" /\ ~is_model_supported(c.model)
             THEN [ret |-> Err(create_model_error_message(c.model, iter, piter)),
                   reads |-> key.reads, checks |-> <<"text", "key", "model">>]
             ELSE [ret |-> Ok(Unit), reads |-> key.reads,
                   checks |-> IF c.url.tag = "None" THEN <<"text", "key", "model">>
                              ELSE <<"text", "key">>]

(***************************************************************************)
(* lib.rs and translator.rs: the library entry points.                     *)
(***************************************************************************)
\* Translator::new: the client configuration and the model
Translator(api_key, api_base, model) ==
    [api_key |-> api_key, api_base |-> api_base, model |-> model]

(***************************************************************************)
(* translator.rs: Translator::translate.  The call is split where it       *)
(* awaits the client: translate_request is what it does before, and        *)
(* translate_response what it does with the reply.                         *)
(***************************************************************************)
\* const PROMPT
PROMPT ==
    <<"U+4F60", "U+662F", "U+4E00", "U+4E2A", "U+6781", "U+7B80", "U+7FFB", "U+8BD1",
      "U+5DE5", "U+5177", "U+FF0C", "U+63A5", "U+4E0B", "U+6765", "U+6211", "U+5C06",
      "U+8F93", "U+5165", "U+4E00", "U+6BB5", "U+5185", "U+5BB9", "U+FF0C", "U+8BF7",
      "U+6309", "U+7167", "U+4EE5", "U+4E0B", "U+89C4", "U+5219", "U+5C06", "U+5B83",
      "U+7FFB", "U+8BD1", "U+FF1A", "1", "U+3001", "U+5982", "U+679C", "U+8F93", "U+5165",
      "U+5185", "U+5BB9", "U+662F", "U+4E2D", "U+6587", "U+5219", "U+7FFB", "U+8BD1",
      "U+6210", "U+82F1", "U+6587", "U+FF0C", "U+53CD", "U+4E4B", "U+4EA6", "U+7136",
      "U+3002", "2", "U+3001", "U+4EC5", "U+8F93", "U+51FA", "U+7FFB", "U+8BD1", "U+540E",
      "U+7684", "U+5185", "U+5BB9", "U+FF0C", "U+4E0D", "U+8981", "U+643A", "U+5E26",
      "U+5176", "U+4ED6", "U+5185", "U+5BB9", "U+3002", "3", "U+3001", "U+5982", "U+679C",
      "U+7FFB", "U+8BD1", "U+540E", "U+7684", "U+5185", "U+5BB9", "U+662F", "U+5355",
      "U+4E2A", "U+8BCD", "U+8BED", "U+FF0C", "U+5219", "U+9996", "U+5B57", "U+6BCD",
      "U+4E0D", "U+9700", "U+8981", "U+5927", "U+5199", "U+3002">>

translate_text_empty_message ==
    <<"T", "r", "a", "n", "s", "l", "a", "t", "i", "o", "n", " ", "t", "e", "x", "t", " ",
      "c", "a", "n", "n", "o", "t", " ", "b", "e", " ", "e", "m", "p", "t", "y", ".", "\n",
      "\n", "P", "l", "e", "a", "s", "e", " ", "p", "r", "o", "v", "i", "d", "e", " ", "n",
      "o", "n", "-", "e", "m", "p", "t", "y", " ", "t", "e", "x", "t", " ", "t", "o", " ",
      "t", "r", "a", "n", "s", "l", "a", "t", "e", ".">>

\* ChatCompletionRequestUserMessageArgs::default().content(content).build()
user_message(content) == [role |-> "user", content |-> content]

\* Variant of translate_request that does not look at the text.
translate_request_unchecked(self, text, prompt) ==
    LET prompt_text == IF prompt.tag = "Some" THEN prompt.val ELSE PROMPT
    IN  Ok([model |-> self.model,
            messages |-> <<user_message(prompt_text), user_message(text)>>])

\* Variant of translate_request that puts the text before the prompt.
translate_request_text_first(self, text, prompt) ==
    IF is_empty(trim(text))
    THEN Err(translate_text_empty_message)
    ELSE LET prompt_text == IF prompt.tag = "Some" THEN prompt.val ELSE PROMPT
         IN  Ok([model |-> self.model,
                 messages |-> <<user_message(text), user_message(prompt_text)>>])

\* translate up to the request it hands to the client: the error it returns
\* early, or the request.  The builders are given every field they require,
\* so none of the three build() calls fails.
translate_request(self, text, prompt) ==
    IF is_empty(trim(text))
    THEN Err(translate_text_empty_message)
    ELSE LET prompt_text == IF prompt.tag = "Some" THEN prompt.val ELSE PROMPT
         IN  Ok([model |-> self.model,
                 messages |-> <<user_message(prompt_text), user_message(text)>>])

\* the messages of the map_err closure; e is the text of the client's error
authentication_failed_message(e) ==
    <<"A", "u", "t", "h", "e", "n", "t", "i", "c", "a", "t", "i", "o", "n", " ", "f", "a",
      "i", "l", "e", "d", ":", " ">>
    \o e
    \o <<"\n", "\n", "P", "l", "e", "a", "s", "e", " ", "c", "h", "e", "c", "k", " ", "t", "h",
      "a", "t", " ", "y", "o", "u", "r", " ", "A", "P", "I", " ", "k", "e", "y", " ", "i",
      "s", " ", "c", "o", "r", "r", "e", "c", "t", " ", "a", "n", "d", " ", "h", "a", "s",
      " ", "t", "h", "e", " ", "n", "e", "c", "e", "s", "s", "a", "r", "y", " ", "p", "e",
      "r", "m", "i", "s", "s", "i", "o", "n", "s", ".", "\n", "F", "o", "r", " ", "O", "p",
      "e", "n", "A", "I", ":", " ", "E", "n", "s", "u", "r", "e", " ", "y", "o", "u", "r",
      " ", "A", "P", "I", " ", "k", "e", "y", " ", "s", "t", "a", "r", "t", "s", " ", "w",
      "i", "t", "h", " ", "'", "s", "k", "-", "'", "\n", "F", "o", "r", " ", "G", "e", "m",
      "i", "n", "i", ":", " ", "E", "n", "s", "u", "r", "e", " ", "y", "o", "u", "'", "r",
      "e", " ", "u", "s", "i", "n", "g", " ", "a", " ", "v", "a", "l", "i", "d", " ", "G",
      "o", "o", "g", "l", "e", " ", "A", "I", " ", "A", "P", "I", " ", "k", "e", "y">>

not_found_message(e, model) ==
    <<"M", "o", "d", "e", "l", " ", "o", "r", " ", "e", "n", "d", "p", "o", "i", "n", "t",
      " ", "n", "o", "t", " ", "f", "o", "u", "n", "d", ":", " ">>
    \o e
    \o <<"\n", "\n", "P", "l", "e", "a", "s", "e", " ", "v", "e", "r", "i", "f", "y", " ", "t",
      "h", "a", "t", ":", "\n", "-", " ", "T", "h", "e", " ", "m", "o", "d", "e", "l", " ",
      "n", "a", "m", "e", " ", "'">>
    \o model
    \o <<"'", " ", "i", "s", " ", "c", "o", "r", "r", "e", "c", "t", " ", "a", "n", "d", " ",
      "a", "v", "a", "i", "l", "a", "b", "l", "e", "\n", "-", " ", "T", "h", "e", " ", "A",
      "P", "I", " ", "e", "n", "d", "p", "o", "i", "n", "t", " ", "i", "s", " ", "a", "c",
      "c", "e", "s", "s", "i", "b", "l", "e", "\n", "-", " ", "Y", "o", "u", " ", "h", "a",
      "v", "e", " ", "p", "e", "r", "m", "i", "s", "s", "i", "o", "n", " ", "t", "o", " ",
      "u", "s", "e", " ", "t", "h", "i", "s", " ", "m", "o", "d", "e", "l">>

rate_limit_message(e) ==
    <<"R", "a", "t", "e", " ", "l", "i", "m", "i", "t", " ", "e", "x", "c", "e", "e", "d",
      "e", "d", ":", " ">>
    \o e
    \o <<"\n", "\n", "P", "l", "e", "a", "s", "e", " ", "w", "a", "i", "t", " ", "a", " ", "m",
      "o", "m", "e", "n", "t", " ", "b", "e", "f", "o", "r", "e", " ", "t", "r", "y", "i",
      "n", "g", " ", "a", "g", "a", "i", "n", ".", " ", "C", "o", "n", "s", "i", "d", "e",
      "r", " ", "u", "p", "g", "r", "a", "d", "i", "n", "g", " ", "y", "o", "u", "r", " ",
      "A", "P", "I", " ", "p", "l", "a", "n", " ", "i", "f", " ", "t", "h", "i", "s", " ",
      "h", "a", "p", "p", "e", "n", "s", " ", "f", "r", "e", "q", "u", "e", "n", "t", "l",
      "y", ".">>

network_error_message(e) ==
    <<"N", "e", "t", "w", "o", "r", "k", " ", "e", "r", "r", "o", "r", ":", " ">>
    \o e
    \o <<"\n", "\n", "P", "l", "e", "a", "s", "e", " ", "c", "h", "e", "c", "k", " ", "y", "o",
      "u", "r", " ", "i", "n", "t", "e", "r", "n", "e", "t", " ", "c", "o", "n", "n", "e",
      "c", "t", "i", "o", "n", " ", "a", "n", "d", " ", "t", "r", "y", " ", "a", "g", "a",
      "i", "n", ".", "\n", "I", "f", " ", "t", "h", "e", " ", "p", "r", "o", "b", "l", "e",
      "m", " ", "p", "e", "r", "s", "i", "s", "t", "s", ",", " ", "t", "h", "e", " ", "A",
      "P", "I", " ", "s", "e", "r", "v", "i", "c", "e", " ", "m", "a", "y", " ", "b", "e",
      " ", "t", "e", "m", "p", "o", "r", "a", "r", "i", "l", "y", " ", "u", "n", "a", "v",
      "a", "i", "l", "a", "b", "l", "e", ".">>

api_request_failed_message(e) ==
    <<"A", "P", "I", " ", "r", "e", "q", "u", "e", "s", "t", " ", "f", "a", "i", "l", "e",
      "d", ":", " ">>
    \o e
    \o <<"\n", "\n", "P", "l", "e", "a", "s", "e", " ", "c", "h", "e", "c", "k", " ", "y", "o",
      "u", "r", " ", "n", "e", "t", "w", "o", "r", "k", " ", "c", "o", "n", "n", "e", "c",
      "t", "i", "o", "n", ",", " ", "A", "P", "I", " ", "k", "e", "y", ",", " ", "a", "n",
      "d", " ", "m", "o", "d", "e", "l", " ", "n", "a", "m", "e", ".", "\n", "I", "f", " ",
      "t", "h", "e", " ", "p", "r", "o", "b", "l", "e", "m", " ", "p", "e", "r", "s", "i",
      "s", "t", "s", ",", " ", "t", "h", "e", " ", "A", "I", " ", "s", "e", "r", "v", "i",
      "c", "e", " ", "m", "a", "y", " ", "b", "e", " ", "t", "e", "m", "p", "o", "r", "a",
      "r", "i", "l", "y", " ", "u", "n", "a", "v", "a", "i", "l", "a", "b", "l", "e", ".">>

\* Variant of api_error_message that tests "404" and "not found" first.
api_error_message_not_found_first(error_str, model) ==
    IF contains(error_str, <<"4", "0", "4">>)
       \/ contains(error_str, <<"n", "o", "t", " ", "f", "o", "u", "n", "d">>)
    THEN not_found_message(error_str, model)
    ELSE IF contains(error_str, <<"4", "0", "1">>)
       \/ contains(error_str, <<"a", "u", "t", "h", "e", "n", "t", "i", "c", "a", "t", "i", "o", "n">>)
    THEN authentication_failed_message(error_str)
    ELSE IF contains(error_str, <<"4", "2", "9">>)
       \/ contains(error_str, <<"r", "a", "t", "e", " ", "l", "i", "m", "i", "t">>)
    THEN rate_limit_message(error_str)
    ELSE IF contains(error_str, <<"t", "i", "m", "e", "o", "u", "t">>)
       \/ contains(error_str, <<"c", "o", "n", "n", "e", "c", "t", "i", "o", "n">>)
    THEN network_error_message(error_str)
    ELSE api_request_failed_message(error_str)

\* Variant of api_error_message that has a message of its own for a failure
\* that names the endpoint.
api_error_message_endpoint_apart(error_str, model) ==
    IF contains(error_str, <<"4", "0", "1">>)
       \/ contains(error_str, <<"a", "u", "t", "h", "e", "n", "t", "i", "c", "a", "t", "i", "o", "n">>)
    THEN authentication_failed_message(error_str)
    ELSE IF contains(error_str, <<"4", "0", "4">>)
       \/ contains(error_str, <<"n", "o", "t", " ", "f", "o", "u", "n", "d">>)
    THEN IF contains(error_str, <<"e", "n", "d", "p", "o", "i", "n", "t">>)
         THEN <<"E", "n", "d", "p", "o", "i", "n", "t", " ", "n", "o", "t", " ", "f", "o", "u", "n", "d", ":", " ">>
              \o error_str
         ELSE not_found_message(error_str, model)
    ELSE IF contains(error_str, <<"4", "2", "9">>)
       \/ contains(error_str, <<"r", "a", "t", "e", " ", "l", "i", "m", "i", "t">>)
    THEN rate_limit_message(error_str)
    ELSE IF contains(error_str, <<"t", "i", "m", "e", "o", "u", "t">>)
       \/ contains(error_str, <<"c", "o", "n", "n", "e", "c", "t", "i", "o", "n">>)
    THEN network_error_message(error_str)
    ELSE api_request_failed_message(error_str)

\* the map_err closure on the client's error: error_str is e.to_string(),
\* and the message shows e by the same Display
api_error_message(error_str, model) ==
    IF contains(error_str, <<"4", "0", "1">>)
       \/ contains(error_str, <<"a", "u", "t", "h", "e", "n", "t", "i", "c", "a", "t", "i", "o", "n">>)
    THEN authentication_failed_message(error_str)
    ELSE IF contains(error_str, <<"4", "0", "4">>)
       \/ contains(error_str, <<"n", "o", "t", " ", "f", "o", "u", "n", "d">>)
    THEN not_found_message(error_str, model)
    ELSE IF contains(error_str, <<"4", "2", "9">>)
       \/ contains(error_str, <<"r", "a", "t", "e", " ", "l", "i", "m", "i", "t">>)
    THEN rate_limit_message(error_str)
    ELSE IF contains(error_str, <<"t", "i", "m", "e", "o", "u", "t">>)
       \/ contains(error_str, <<"c", "o", "n", "n", "e", "c", "t", "i", "o", "n">>)
    THEN network_error_message(error_str)
    ELSE api_request_failed_message(error_str)

no_results_message ==
    <<"N", "o", " ", "t", "r", "a", "n", "s", "l", "a", "t", "i", "o", "n", " ", "r", "e",
      "s", "u", "l", "t", "s", " ", "i", "n", " ", "A", "P", "I", " ", "r", "e", "s", "p",
      "o", "n", "s", "e", ".", "\n", "\n", "T", "h", "i", "s", " ", "m", "a", "y", " ", "i",
      "n", "d", "i", "c", "a", "t", "e", " ", "a", "n", " ", "i", "s", "s", "u", "e", " ",
      "w", "i", "t", "h", " ", "t", "h", "e", " ", "A", "I", " ", "m", "o", "d", "e", "l",
      " ", "o", "r", " ", "s", "e", "r", "v", "i", "c", "e", ".", " ", "P", "l", "e", "a",
      "s", "e", " ", "t", "r", "y", " ", "a", "g", "a", "i", "n", " ", "o", "r", " ", "u",
      "s", "e", " ", "a", " ", "d", "i", "f", "f", "e", "r", "e", "n", "t", " ", "m", "o",
      "d", "e", "l", ".">>

empty_result_message ==
    <<"T", "r", "a", "n", "s", "l", "a", "t", "i", "o", "n", " ", "r", "e", "s", "u", "l",
      "t", " ", "i", "s", " ", "e", "m", "p", "t", "y", ".", "\n", "\n", "T", "h", "e", " ",
      "A", "I", " ", "m", "o", "d", "e", "l", " ", "r", "e", "t", "u", "r", "n", "e", "d",
      " ", "a", "n", " ", "e", "m", "p", "t", "y", " ", "r", "e", "s", "p", "o", "n", "s",
      "e", ".", " ", "T", "h", "i", "s", " ", "m", "a", "y", " ", "b", "e", " ", "d", "u",
      "e", " ", "t", "o", ":", "\n", "-", " ", "T", "h", "e", " ", "i", "n", "p", "u", "t",
      " ", "t", "e", "x", "t", " ", "b", "e", "i", "n", "g", " ", "u", "n", "c", "l", "e",
      "a", "r", " ", "o", "r", " ", "u", "n", "t", "r", "a", "n", "s", "l", "a", "t", "a",
      "b", "l", "e", "\n", "-", " ", "I", "s", "s", "u", "e", "s", " ", "w", "i", "t", "h",
      " ", "t", "h", "e", " ", "m", "o", "d", "e", "l", " ", "o", "r", " ", "p", "r", "o",
      "m", "p", "t", "\n", "-", " ", "T", "e", "m", "p", "o", "r", "a", "r", "y", " ", "s",
      "e", "r", "v", "i", "c", "e", " ", "p", "r", "o", "b", "l", "e", "m", "s", "\n", "\n",
      "P", "l", "e", "a", "s", "e", " ", "t", "r", "y", " ", "a", "g", "a", "i", "n", " ",
      "w", "i", "t", "h", " ", "d", "i", "f", "f", "e", "r", "e", "n", "t", " ", "t", "e",
      "x", "t", " ", "o", "r", " ", "c", "h", "e", "c", "k", " ", "t", "h", "e", " ", "m",
      "o", "d", "e", "l", " ", "s", "t", "a", "t", "u", "s", ".">>

\* the loop over response.choices, entered with result
RECURSIVE push_contents(_, _)
push_contents(result, choices) ==
    IF choices = <<>>
    THEN result
    ELSE LET content == Head(choices).message.content
         IN  IF content.tag = "Some"
             THEN push_contents(
                      (IF ~is_empty(result) THEN result \o <<"\n">> ELSE result)
                          \o content.val,
                      Tail(choices))
             ELSE push_contents(result, Tail(choices))

\* Variant of translate_response that returns the result without asking
\* whether it is blank.
translate_response_unchecked(self, reply) ==
    IF reply.tag = "Err"
    THEN Err(api_error_message(reply.err, self.model))
    ELSE LET response == reply.val
         IN  IF response.choices = <<>>
             THEN Err(no_results_message)
             ELSE Ok(trim(push_contents(<<>>, response.choices)))

\* translate from the reply of the client on: reply is the Result of
\* self.client.chat().create(req).await, its error given by its text
translate_response(self, reply) ==
    IF reply.tag = "Err"
    THEN Err(api_error_message(reply.err, self.model))
    ELSE LET response == reply.val
         IN  IF response.choices = <<>>
             THEN Err(no_results_message)
             ELSE LET result == push_contents(<<>>, response.choices)
                  IN  IF is_empty(trim(result))
                      THEN Err(empty_result_message)
                      ELSE Ok(trim(result))

\* TransomeError::model_not_found (error.rs)
model_not_found(model_name, available_models) ==
    [kind |-> "ModelNotFound", model_name |-> model_name,
     available_models |-> available_models]

\* Variant of create_translator that falls back to the OpenAI endpoint for a
\* model the registry does not hold.
create_translator_fallback(api_key, model, custom_url, iter) ==
    IF custom_url.tag = "Some"
    THEN Ok(Translator(api_key, custom_url.val, model))
    ELSE IF get_model_url(model).tag = "Some"
    THEN Ok(Translator(api_key, get_model_url(model).val, model))
    ELSE Ok(Translator(api_key, OPENAI_URL, model))

create_translator(api_key, model, custom_url, iter) ==
    IF custom_url.tag = "Some"
    THEN Ok(Translator(api_key, custom_url.val, model))
    ELSE IF get_model_url(model).tag = "Some"
    THEN Ok(Translator(api_key, get_model_url(model).val, model))
    ELSE Err(model_not_found(model, get_supported_model_names(iter)))

UNKNOWN ==
    <<"U", "n", "k", "n", "o", "w", "n">>

\* Variant of get_model_provider that does not ask whether the model is
\* supported.
get_model_provider_unguarded(model_name) == get_provider_name(model_name)

get_model_provider(model_name) ==
    IF is_model_supported(model_name) THEN get_provider_name(model_name) ELSE UNKNOWN

(***************************************************************************)
(* The inputs.                                                             *)
(***************************************************************************)
\* whitespace characters, cycled to build the whitespace-only strings
WsCycle == <<" ", "\t", "\n", "U+3000", "\r">>
Pad(k) == [i \in 1..k |-> WsCycle[((i - 1) % Len(WsCycle)) + 1]]
Blanks == {Pad(k) : k \in 0..MaxPad}

RegisteredModels == DOMAIN get_model_to_url

\* strings that are not in the registry: empty, other case, padded, unknown,
\* URL-shaped, and strings that hold the host of a known endpoint
UnregisteredModels ==
    {<<>>,
     <<"G", "P", "T", "-", "4">>,
     <<" ", "g", "p", "t", "-", "4", " ">>,
     <<"u", "n", "k", "n", "o", "w", "n", "-", "m", "o", "d", "e", "l">>,
     <<"h", "t", "t", "p", "s", ":", "/", "/", "c", "u", "s", "t", "o", "m", ".", "a", "p",
       "i", ".", "c", "o", "m">>,
     <<"h", "t", "t", "p", "s", ":", "/", "/", "a", "p", "i", ".", "o", "p", "e", "n", "a",
       "i", ".", "c", "o", "m", "/", "v", "1">>,
     <<"g", "e", "n", "e", "r", "a", "t", "i", "v", "e", "l", "a", "n", "g", "u", "a", "g",
       "e", ".", "g", "o", "o", "g", "l", "e", "a", "p", "i", "s", ".", "c", "o", "m", "/",
       "v", "1", "b", "e", "t", "a">>}

Models == RegisteredModels \cup UnregisteredModels

HELLO ==
    <<"h", "e", "l", "l", "o">>
Texts == {None} \cup {Some(b) : b \in Blanks} \cup {Some(HELLO)}

CUSTOM_URL ==
    <<"h", "t", "t", "p", "s", ":", "/", "/", "c", "u", "s", "t", "o", "m", ".", "a", "p",
      "i", ".", "c", "o", "m", "/", "v", "1">>
Urls == {None, Some(CUSTOM_URL)}

\* an explicit key: absent, a key, or the empty string
ApiKeys == {<<"X">>, <<>>}
Keys == {None} \cup {Some(k) : k \in ApiKeys}

SK_TEST ==
    <<"s", "k", "-", "t", "e", "s", "t">>
EnvValues == {Unset, NotUnicode, SetTo(SK_TEST)} \cup {SetTo(b) : b \in Blanks}
EnvNames == {OPENAI_API_KEY, GOOGLE_AI_API_KEY}
Envs == [EnvNames -> EnvValues]

\* no call of Translator::translate is under way
NoCall == [pc |-> "idle"]

\* OnceLock::new(): nothing stored, the closure has not run
Uninit == [state |-> "Incomplete", runs |-> 0]

\* MODEL_TO_URL.get_or_init(..) called by the one thread of the process: the
\* closure runs when nothing is stored yet
get_or_init(o) ==
    IF o.state = "Complete" THEN o
    ELSE [state |-> "Complete", runs |-> o.runs + 1, value |-> get_model_to_url]

\* whether the call reaches get_model_to_url
resolve_api_key_uses_registry(c) == c.key.tag = "None"
resolve_url_uses_registry(c) == c.url.tag = "None"
validate_uses_registry(c) ==
    /\ ~c.list_models
    /\ c.text.tag = "Some"
    /\ ~is_empty(trim(c.text.val))
    /\ (resolve_api_key_uses_registry(c) \/ c.url.tag = "None")
create_translator_uses_registry(custom_url) == custom_url.tag = "None"

\* no thread accesses the registry
NoThreads == <<>>

\* the binary is not running
NoProcess == [pc |-> "none"]

Clis ==
    [text : Texts, model : Models, url : Urls, key : Keys, list_models : BOOLEAN]

(***************************************************************************)
(* The resolver: one command line and one environment, and one of the      *)
(* operations of Cli or of the library applied to them.                    *)
(***************************************************************************)
Init ==
    /\ cli \in Clis
    /\ env \in Envs
    /\ op = "init"
    /\ ret = None
    /\ reads = {}
    /\ call = NoCall
    /\ sent = <<>>
    /\ once = Uninit
    /\ threads = NoThreads
    /\ proc = NoProcess

Validate ==
    /\ op = "init"
    /\ \E it \in TriedCases :
         LET r == validate(cli, env, it.iter, it.piter)
         IN  /\ ret' = [ret |-> r.ret, checks |-> r.checks]
             /\ reads' = r.reads
    /\ op' = "validate"
    /\ once' = IF validate_uses_registry(cli) THEN get_or_init(once) ELSE once
    /\ UNCHANGED <<cli, env, call, sent, threads, proc>>

ResolveApiKey ==
    /\ op = "init"
    /\ ret' = resolve_api_key(cli, env).ret
    /\ reads' = resolve_api_key(cli, env).reads
    /\ op' = "resolve_api_key"
    /\ once' = IF resolve_api_key_uses_registry(cli) THEN get_or_init(once) ELSE once
    /\ UNCHANGED <<cli, env, call, sent, threads, proc>>

ResolveUrl ==
    /\ op = "init"
    /\ \E it \in TriedCases : ret' = resolve_url(cli, it.iter, it.piter)
    /\ op' = "resolve_url"
    /\ once' = IF resolve_url_uses_registry(cli) THEN get_or_init(once) ELSE once
    /\ UNCHANGED <<cli, env, reads, call, sent, threads, proc>>

\* create_translator(api_key, cli.model, cli.url)
CreateTranslator ==
    /\ op = "init"
    /\ \E api_key \in ApiKeys : \E iter \in TriedOrders :
         ret' = [api_key |-> api_key,
                 result |-> create_translator(api_key, cli.model, cli.url, iter)]
    /\ op' = "create_translator"
    /\ once' = IF create_translator_uses_registry(cli.url) THEN get_or_init(once) ELSE once
    /\ UNCHANGED <<cli, env, reads, call, sent, threads, proc>>

Next == Validate \/ ResolveApiKey \/ ResolveUrl \/ CreateTranslator

Spec == Init /\ [][Next]_vars

(***************************************************************************)
(* The registry: its functions applied to one string, cli.model.           *)
(***************************************************************************)
\* a string that holds the hosts of both endpoints, the OpenAI one first
BOTH_HOSTS ==
    <<"a", "p", "i", ".", "o", "p", "e", "n", "a", "i", ".", "c", "o", "m", ".", "g", "e",
      "n", "e", "r", "a", "t", "i", "v", "e", "l", "a", "n", "g", "u", "a", "g", "e", ".",
      "g", "o", "o", "g", "l", "e", "a", "p", "i", "s", ".", "c", "o", "m">>

\* the strings the functions of the registry are applied to
RegistryStrings == Models \cup {BOTH_HOSTS}

InitRegistry ==
    /\ cli \in [text : {None}, model : RegistryStrings, url : {None}, key : {None},
                list_models : {FALSE}]
    /\ env = [n \in EnvNames |-> Unset]
    /\ op = "init"
    /\ ret = None
    /\ reads = {}
    /\ call = NoCall
    /\ sent = <<>>
    /\ once = Uninit
    /\ threads = NoThreads
    /\ proc = NoProcess

GetModelUrl ==
    /\ op = "init"
    /\ ret' = get_model_url(cli.model)
    /\ op' = "get_model_url"
    /\ once' = get_or_init(once)
    /\ UNCHANGED <<cli, env, reads, call, sent, threads, proc>>

GetProviderName ==
    /\ op = "init"
    /\ ret' = get_provider_name(cli.model)
    /\ op' = "get_provider_name"
    /\ once' = get_or_init(once)
    /\ UNCHANGED <<cli, env, reads, call, sent, threads, proc>>

IsModelSupported ==
    /\ op = "init"
    /\ ret' = is_model_supported(cli.model)
    /\ op' = "is_model_supported"
    /\ once' = get_or_init(once)
    /\ UNCHANGED <<cli, env, reads, call, sent, threads, proc>>

GetEnvVarNameForModel ==
    /\ op = "init"
    /\ ret' = get_env_var_name_for_model(cli.model)
    /\ op' = "get_env_var_name_for_model"
    /\ once' = get_or_init(once)
    /\ UNCHANGED <<cli, env, reads, call, sent, threads, proc>>

GetSupportedModelNames ==
    /\ op = "init"
    /\ \E iter \in TriedOrders : ret' = get_supported_model_names(iter)
    /\ op' = "get_supported_model_names"
    /\ once' = get_or_init(once)
    /\ UNCHANGED <<cli, env, reads, call, sent, threads, proc>>

GetAllModels ==
    /\ op = "init"
    /\ \E iter \in TriedOrders : ret' = get_all_models(iter)
    /\ op' = "get_all_models"
    /\ once' = get_or_init(once)
    /\ UNCHANGED <<cli, env, reads, call, sent, threads, proc>>

\* println!: the text and a newline, written to the standard output
println(text) == text \o <<"\n">>

\* the lines of the models of one provider
RECURSIVE list_models_names(_)
list_models_names(models) ==
    IF Len(models) = 0 THEN <<>>
    ELSE println(<<" ", " ", "-", " ">>
                 \o models[1][1])
         \o list_models_names(Tail(models))

\* the loop over sorted_providers: a provider with its first URL, then its
\* models
RECURSIVE list_models_providers(_)
list_models_providers(sorted) ==
    IF Len(sorted) = 0 THEN <<>>
    ELSE LET provider == sorted[1][1]
             models == sorted[1][2]
         IN  (IF Len(models) > 0
              THEN println(<<"\n">>
                           \o provider
                           \o <<" ", "(">>
                           \o models[1][2]
                           \o <<")", ":">>)
                   \o list_models_names(models)
              ELSE <<>>)
             \o list_models_providers(Tail(sorted))

\* list_models(): what it writes to the standard output
list_models(iter, piter) ==
    println(<<"\n", "U+652F", "U+6301", "U+7684", "U+6A21", "U+578B", ":">>)
    \o list_models_providers(get_sorted_providers_with_models(iter, piter))
    \o println(<<"\n", "U+4F7F", "U+7528", "U+65B9", "U+6CD5", ":">>)
    \o println(<<" ", " ", "t", "r", "a", "n", "s", "o", "m", "e", " ", "[", "U+9009", "U+9879", "]",
              " ", "[", "U+6587", "U+672C", "]">>)
    \o println(<<"\n", "U+9009", "U+9879", ":">>)
    \o println(<<" ", " ", "-", "m", ",", " ", "-", "-", "m", "o", "d", "e", "l", " ", "<", "U+6A21",
              "U+578B", ">", " ", " ", " ", " ", "U+4F7F", "U+7528", "U+4E0A", "U+8FF0", "U+5217",
              "U+8868", "U+4E2D", "U+7684", "U+652F", "U+6301", "U+6A21", "U+578B">>)
    \o println(<<" ", " ", "-", "u", ",", " ", "-", "-", "u", "r", "l", " ", "<", "U+5730", "U+5740",
              ">", " ", " ", " ", " ", " ", " ", "U+4F7F", "U+7528", "U+81EA", "U+5B9A", "U+4E49",
              " ", "A", "P", "I", " ", "U+5730", "U+5740", "U+FF08", "U+8986", "U+76D6", "U+6A21",
              "U+578B", "U+9009", "U+62E9", "U+FF09">>)
    \o println(<<"\n", "U+793A", "U+4F8B", ":">>)
    \o println(<<" ", " ", "t", "r", "a", "n", "s", "o", "m", "e", " ", "-", "m", " ", "g", "p", "t",
              "-", "4", " ", "\"", "H", "e", "l", "l", "o", " ", "w", "o", "r", "l", "d", "\"">>)
    \o println(<<" ", " ", "t", "r", "a", "n", "s", "o", "m", "e", " ", "-", "u", " ", "h", "t", "t",
              "p", "s", ":", "/", "/", "c", "u", "s", "t", "o", "m", ".", "a", "p", "i", ".", "c",
              "o", "m", "/", "v", "1", " ", "-", "m", " ", "c", "u", "s", "t", "o", "m", "-", "m",
              "o", "d", "e", "l", " ", "\"", "H", "e", "l", "l", "o", " ", "w", "o", "r", "l", "d",
              "\"">>)

\* Cli::list_all_models() (cli.rs)
list_all_models(iter, piter) == list_models(iter, piter)

\* ret is what the call has written to the standard output
ListModels ==
    /\ op = "init"
    /\ \E it \in TriedCases : ret' = list_models(it.iter, it.piter)
    /\ op' = "list_models"
    /\ once' = get_or_init(once)
    /\ UNCHANGED <<cli, env, reads, call, sent, threads, proc>>

ListAllModels ==
    /\ op = "init"
    /\ \E it \in TriedCases : ret' = list_all_models(it.iter, it.piter)
    /\ op' = "list_all_models"
    /\ once' = get_or_init(once)
    /\ UNCHANGED <<cli, env, reads, call, sent, threads, proc>>

\* ret keeps the sorted groups beside the message built from them
CreateModelErrorMessage ==
    /\ op = "init"
    /\ \E it \in TriedCases :
         ret' = [groups |-> get_sorted_providers_with_models(it.iter, it.piter),
                 message |-> create_model_error_message(cli.model, it.iter, it.piter)]
    /\ op' = "create_model_error_message"
    /\ once' = get_or_init(once)
    /\ UNCHANGED <<cli, env, reads, call, sent, threads, proc>>

GetModelProvider ==
    /\ op = "init"
    /\ ret' = get_model_provider(cli.model)
    /\ op' = "get_model_provider"
    /\ once' = get_or_init(once)
    /\ UNCHANGED <<cli, env, reads, call, sent, threads, proc>>

NextRegistry ==
    \/ GetModelUrl
    \/ GetProviderName
    \/ IsModelSupported
    \/ GetEnvVarNameForModel
    \/ GetSupportedModelNames
    \/ GetAllModels
    \/ CreateModelErrorMessage
    \/ GetModelProvider
    \/ ListModels
    \/ ListAllModels

SpecRegistry == InitRegistry /\ [][NextRegistry]_vars

(***************************************************************************)
(* Properties.  Spec is the resolver, SpecRegistry the registry.           *)
(***************************************************************************)
UNKNOWN_MODEL ==
    <<"u", "n", "k", "n", "o", "w", "n", "-", "m", "o", "d", "e", "l">>
GPT_4 ==
    <<"g", "p", "t", "-", "4">>
GPT_PREFIX ==
    <<"g", "p", "t", "-">>
GEMINI_PREFIX ==
    <<"g", "e", "m", "i", "n", "i", "-">>
PADDED_GPT_4 ==
    <<" ", "g", "p", "t", "-", "4", " ">>

\* every character of s is whitespace (the empty string included)
AllWhitespace(s) == \A i \in 1..Len(s) : is_whitespace(s[i])

\* the text is missing or holds no character that is not whitespace
TextMissingOrBlank(c) ==
    IF c.text.tag = "None" THEN TRUE ELSE AllWhitespace(c.text.val)

\* r is the model-not-found error of model
IsModelNotFound(r, model) ==
    IF r.tag = "Err" THEN starts_with(r.err, model_error_header(model)) ELSE FALSE

\* the text the error validate makes of a failure of resolve_api_key starts
\* with (cli.rs line 166, up to the wrapped error)
KEY_ERROR_PREFIX ==
    <<"A", "P", "I", " ", "U+5BC6", "U+94A5", "U+9A8C", "U+8BC1", "U+5931", "U+8D25",
      "U+FF1A">>

\* r is the error validate makes of a failure of resolve_api_key
IsKeyError(r) ==
    IF r.tag = "Err" THEN starts_with(r.err, KEY_ERROR_PREFIX) ELSE FALSE

\* r is one of the two errors about the text
IsTextError(r) == r \in {Err(text_empty_message), Err(text_required_message)}

\* C1: validate with list_models = FALSE checks the text, then the key, then
\* (without an explicit URL) the model, and returns the first failure: a
\* missing or blank text gives the text error whatever the key and the model
\* are, an unresolvable key gives the key error whatever the model is, and
\* the model error is returned only when text and key are fine.
C1_ValidateOrder ==
    (op = "validate" /\ ~cli.list_models) =>
        LET key == resolve_api_key(cli, env).ret
            unknown == cli.url.tag = "None" /\ cli.model \notin RegisteredModels
        IN  /\ TextMissingOrBlank(cli) =>
                /\ IsTextError(ret.ret)
                /\ ~IsKeyError(ret.ret)
                /\ ~IsModelNotFound(ret.ret, cli.model)
                /\ ret.checks = <<"text">>
            /\ (~TextMissingOrBlank(cli) /\ key.tag = "Err") =>
                /\ ret.ret = Err(key_validation_message(key.err))
                /\ IsKeyError(ret.ret)
                /\ ~IsModelNotFound(ret.ret, cli.model)
                /\ ret.checks = <<"text", "key">>
            /\ (~TextMissingOrBlank(cli) /\ key.tag = "Ok" /\ unknown) =>
                /\ IsModelNotFound(ret.ret, cli.model)
                /\ ~IsKeyError(ret.ret)
                /\ ret.checks = <<"text", "key", "model">>
            /\ (~TextMissingOrBlank(cli) /\ key.tag = "Ok" /\ ~unknown) =>
                ret.ret = Ok(Unit)

\* a whitespace-only text, no key to be had and an unknown model: the text
\* error is the one returned
C1_Witness ==
    /\ op = "validate"
    /\ ~cli.list_models
    /\ cli.text = Some(Pad(1))
    /\ cli.key = None
    /\ cli.url = None
    /\ cli.model = UNKNOWN_MODEL
    /\ env = [n \in EnvNames |-> Unset]
    /\ ret.ret = Err(text_empty_message)

\* C2: resolve_api_key returns an explicit key as it is, for every model and
\* every state of the two environment variables, and reads no environment
\* variable; the key is not checked (the empty key is returned too).
C2_ExplicitKeyWins ==
    (op = "resolve_api_key" /\ cli.key.tag = "Some") =>
        /\ ret = Ok(cli.key.val)
        /\ reads = {}

\* the empty explicit key, for an OpenAI model whose variable holds a key
C2_Witness ==
    /\ op = "resolve_api_key"
    /\ cli.key = Some(<<>>)
    /\ cli.model = GPT_4
    /\ env[OPENAI_API_KEY] = SetTo(SK_TEST)
    /\ ret = Ok(<<>>)

\* the variable of the provider of a registered model, by the model's name
VarOfRegistered(model) ==
    IF starts_with(model, GPT_PREFIX) THEN OPENAI_API_KEY ELSE GOOGLE_AI_API_KEY

\* C3: without an explicit key and for a registered model, a variable set to
\* an empty or whitespace-only string gives the 'set but empty' error, which
\* differs from the 'not set' error an absent variable gives; a key is
\* returned only when the variable holds a character that is not whitespace,
\* and then it is the variable's value.
C3_BlankVariableRejected ==
    (op = "resolve_api_key" /\ cli.key.tag = "None"
        /\ cli.model \in RegisteredModels) =>
        LET name == VarOfRegistered(cli.model)
            v == env[name]
            blank == IF v.tag = "Set" THEN AllWhitespace(v.val) ELSE FALSE
        IN  /\ blank => ret = Err(env_var_empty_message(name, cli.model))
            /\ v.tag = "Unset" => ret = Err(env_var_not_set_message(name, cli.model))
            /\ env_var_empty_message(name, cli.model)
                   # env_var_not_set_message(name, cli.model)
            /\ ret.tag = "Ok" =>
                /\ v.tag = "Set"
                /\ ~blank
                /\ ret.val = v.val

\* a whitespace-only variable (one character or more) for a registered model
C3_Witness ==
    /\ op = "resolve_api_key"
    /\ cli.key = None
    /\ cli.model = GPT_4
    /\ env[OPENAI_API_KEY] = SetTo(Pad(1))
    /\ ret = Err(env_var_empty_message(OPENAI_API_KEY, GPT_4))

\* C4 (as claimed): without an explicit key, resolve_api_key fails for every
\* model that is not in the registry with the 'cannot determine environment
\* variable' error, which names the model and both provider/variable pairs,
\* and it reads no environment variable.
C4_UnregisteredModelUndetermined ==
    (op = "resolve_api_key" /\ cli.key.tag = "None"
        /\ cli.model \notin RegisteredModels) =>
        /\ ret = Err(env_var_undetermined_message(cli.model))
        /\ contains(ret.err, cli.model)
        /\ contains(ret.err, OPENAI) /\ contains(ret.err, OPENAI_API_KEY)
        /\ contains(ret.err, GOOGLE_GEMINI) /\ contains(ret.err, GOOGLE_AI_API_KEY)
        /\ reads = {}

\* C5 (as claimed): get_env_var_name_for_model returns None for every string
\* that is not a model name of the registry.
C5_UnregisteredHasNoVariable ==
    (op = "get_env_var_name_for_model" /\ cli.model \notin RegisteredModels) =>
        ret = None

\* m is one of the names get_supported_model_names returns, for the order iter
IsSupportedName(m, iter) ==
    \E i \in 1..Len(get_supported_model_names(iter)) :
        get_supported_model_names(iter)[i] = m

\* C6: every model of the registry has a non-empty URL and one of the two
\* variables: a gpt-* model the OpenAI endpoint and OPENAI_API_KEY, a
\* gemini-* model the Gemini endpoint and GOOGLE_AI_API_KEY; and for every
\* string, is_model_supported is true exactly when get_model_url is Some,
\* exactly when the string is one of get_supported_model_names.
C6_RegistryComplete ==
    LET m == cli.model
        gpt == starts_with(m, GPT_PREFIX)
        gemini == starts_with(m, GEMINI_PREFIX)
        listed == \A it \in TriedOrders : IsSupportedName(m, it)
        unlisted == \A it \in TriedOrders : ~IsSupportedName(m, it)
    IN  /\ op = "get_model_url" =>
            /\ m \in RegisteredModels =>
                /\ ret.tag = "Some"
                /\ Len(ret.val) > 0
                /\ gpt \/ gemini
                /\ gpt => ret.val = OPENAI_URL
                /\ gemini => ret.val = GEMINI_OPENAI_URL
            /\ ret.tag = "Some" => listed
            /\ ret.tag = "None" => unlisted
        /\ op = "get_env_var_name_for_model" =>
            (m \in RegisteredModels =>
                /\ gpt => ret = Some(OPENAI_API_KEY)
                /\ gemini => ret = Some(GOOGLE_AI_API_KEY)
                /\ ret \in {Some(OPENAI_API_KEY), Some(GOOGLE_AI_API_KEY)})
        /\ op = "is_model_supported" =>
            /\ ret = TRUE => listed /\ m \in RegisteredModels
            /\ ret = FALSE => unlisted /\ m \notin RegisteredModels

\* a registered name with blanks around it is not supported
C6_Witness ==
    /\ op = "is_model_supported"
    /\ cli.model = PADDED_GPT_4
    /\ ret = FALSE

\* C7: with an explicit URL, resolve_url returns it as it is for every
\* model, and validate never fails with the model-not-found error (it does
\* not check the model).
C7_ExplicitUrlBypassesModel ==
    cli.url.tag = "Some" =>
        /\ op = "resolve_url" => ret = Ok(cli.url.val)
        /\ op = "validate" =>
            /\ ~IsModelNotFound(ret.ret, cli.model)
            /\ \A i \in 1..Len(ret.checks) : ret.checks[i] # "model"

\* an unknown model with an explicit URL and an explicit key is accepted
C7_Witness ==
    /\ op = "validate"
    /\ ~cli.list_models
    /\ cli.url = Some(CUSTOM_URL)
    /\ cli.model = UNKNOWN_MODEL
    /\ cli.key.tag = "Some"
    /\ ret.ret = Ok(Unit)

\* the URL the table writes for a model
IsTableUrl(model, url) ==
    \E i \in 1..Len(MODEL_TO_URL) : MODEL_TO_URL[i] = <<model, url>>

\* C8: without an explicit URL, resolve_url and create_translator succeed,
\* with the registry's URL of the model, exactly when the model is
\* registered; otherwise they fail with a model-not-found error that carries
\* the model's name, and the error of create_translator lists
\* get_supported_model_names().
C8_EndpointFromRegistry ==
    cli.url.tag = "None" =>
        /\ op = "resolve_url" =>
            /\ cli.model \in RegisteredModels =>
                ret.tag = "Ok" /\ IsTableUrl(cli.model, ret.val)
            /\ cli.model \notin RegisteredModels =>
                IsModelNotFound(ret, cli.model)
        /\ op = "create_translator" =>
            /\ cli.model \in RegisteredModels =>
                /\ ret.result.tag = "Ok"
                /\ IsTableUrl(cli.model, ret.result.val.api_base)
                /\ ret.result.val.model = cli.model
                /\ ret.result.val.api_key = ret.api_key
            /\ cli.model \notin RegisteredModels =>
                /\ ret.result.tag = "Err"
                /\ ret.result.err.kind = "ModelNotFound"
                /\ ret.result.err.model_name = cli.model
                /\ \A it \in TriedOrders :
                       ret.result.err.available_models = get_supported_model_names(it)

\* create_translator fails for the unknown model
C8_Witness ==
    /\ op = "create_translator"
    /\ cli.url = None
    /\ cli.model = UNKNOWN_MODEL
    /\ ret.result.tag = "Err"
    /\ Len(ret.result.err.available_models) = Len(MODEL_TO_URL)

\* a < b for two ASCII strings
str_lt(a, b) == a # b /\ str_le(a, b)

\* the provider a registered model belongs to, by the model's name
ProviderOfRegistered(model) ==
    IF starts_with(model, GPT_PREFIX) THEN OPENAI ELSE GOOGLE_GEMINI

\* the text of the groups g[k..], as the message writes them
RECURSIVE GroupsText(_, _)
GroupsText(g, k) ==
    IF k > Len(g) THEN <<>>
    ELSE <<"\n", "\n">> \o g[k][1] \o <<":", " ">>
         \o join([i \in 1..Len(g[k][2]) |-> g[k][2][i][1]], <<",", " ">>)
         \o GroupsText(g, k + 1)

\* C9: the message of create_model_error_message lists every registered
\* model exactly once, under the group of its own provider, the groups in
\* ascending order of the provider's name and the models of a group in
\* ascending order of their names.
C9_MessageListsEveryModel ==
    op = "create_model_error_message" =>
        LET g == ret.groups
        IN  /\ ret.message =
                   model_error_header(cli.model) \o GroupsText(g, 1) \o model_error_usage
            /\ \A i, j \in 1..Len(g) : i < j => str_lt(g[i][1], g[j][1])
            /\ \A k \in 1..Len(g) : \A i, j \in 1..Len(g[k][2]) :
                   i < j => str_lt(g[k][2][i][1], g[k][2][j][1])
            /\ \A m \in RegisteredModels :
                   Cardinality({<<k, i>> \in (1..Len(g)) \X (1..Len(MODEL_TO_URL)) :
                                    i <= Len(g[k][2]) /\ g[k][2][i][1] = m}) = 1
            /\ \A k \in 1..Len(g) : \A i \in 1..Len(g[k][2]) :
                   /\ g[k][2][i][1] \in RegisteredModels
                   /\ g[k][1] = ProviderOfRegistered(g[k][2][i][1])

\* the message for the unknown model: two groups, Google Gemini first
C9_Witness ==
    /\ op = "create_model_error_message"
    /\ cli.model = UNKNOWN_MODEL
    /\ Len(ret.groups) = Cardinality({OPENAI, GOOGLE_GEMINI})
    /\ ret.groups[1][1] = GOOGLE_GEMINI
    /\ contains(ret.message, GPT_4 \o <<",", " ">>)

\* C10: for the model "unknown-model", a text that is not blank and no
\* explicit URL, validate (of a translation: list_models = FALSE) fails
\* whether or not a key is given and whatever the environment holds, and the
\* message holds "unknown-model", "OpenAI" and "Google Gemini".
C10_UnknownModelFails ==
    (op = "validate" /\ ~cli.list_models /\ cli.model = UNKNOWN_MODEL
        /\ cli.url.tag = "None" /\ ~TextMissingOrBlank(cli)) =>
        /\ ret.ret.tag = "Err"
        /\ contains(ret.ret.err, UNKNOWN_MODEL)
        /\ contains(ret.ret.err, OPENAI)
        /\ contains(ret.ret.err, GOOGLE_GEMINI)

\* with an explicit key, it is the model check that fails
C10_Witness ==
    /\ op = "validate"
    /\ ~cli.list_models
    /\ cli.model = UNKNOWN_MODEL
    /\ cli.url = None
    /\ cli.text = Some(HELLO)
    /\ cli.key.tag = "Some"
    /\ IsModelNotFound(ret.ret, UNKNOWN_MODEL)

\* C15: validate returns Ok whenever list_models is TRUE, whatever the text
\* (missing too), the model, the URL, the key and the environment are, and it
\* runs no check: it resolves no key and reads no environment variable.
C15_ListModelsSkipsValidation ==
    (op = "validate" /\ cli.list_models) =>
        /\ ret.ret = Ok(Unit)
        /\ ret.checks = <<>>
        /\ reads = {}

\* list_models with no text, no key to be had and an unknown model
C15_Witness ==
    /\ op = "validate"
    /\ cli.list_models
    /\ cli.text = None
    /\ cli.key = None
    /\ cli.url = None
    /\ cli.model = UNKNOWN_MODEL
    /\ env = [n \in EnvNames |-> Unset]
    /\ ret.ret = Ok(Unit)

\* the variable holds no key: absent, not Unicode, or nothing but whitespace
HoldsNoKey(v) == IF v.tag = "Set" THEN AllWhitespace(v.val) ELSE TRUE

\* C16: without an explicit key the variable resolve_api_key reads is the one
\* of the model's provider alone: for a registered model the result is the
\* same in every environment that agrees on that variable, whatever the
\* other variable holds, and when the model's variable holds no key the call
\* fails even if the other provider's variable holds one.
C16_OnlyTheProvidersVariable ==
    (op = "resolve_api_key" /\ cli.key.tag = "None"
        /\ cli.model \in RegisteredModels) =>
        LET own == VarOfRegistered(cli.model)
        IN  /\ reads = {own}
            /\ \A e2 \in Envs :
                   e2[own] = env[own] => resolve_api_key(cli, e2).ret = ret
            /\ HoldsNoKey(env[own]) => ret.tag = "Err"
            /\ ~HoldsNoKey(env[own]) => ret = Ok(env[own].val)

\* an OpenAI model, OPENAI_API_KEY absent and GOOGLE_AI_API_KEY holding a key
C16_Witness ==
    /\ op = "resolve_api_key"
    /\ cli.key = None
    /\ cli.model = GPT_4
    /\ env[OPENAI_API_KEY] = Unset
    /\ env[GOOGLE_AI_API_KEY] = SetTo(SK_TEST)
    /\ ret = Err(env_var_not_set_message(OPENAI_API_KEY, GPT_4))

GEMINI_HOST ==
    <<"g", "e", "n", "e", "r", "a", "t", "i", "v", "e", "l", "a", "n", "g", "u", "a", "g",
      "e", ".", "g", "o", "o", "g", "l", "e", "a", "p", "i", "s", ".", "c", "o", "m">>
OPENAI_HOST ==
    <<"a", "p", "i", ".", "o", "p", "e", "n", "a", "i", ".", "c", "o", "m">>

\* C17: get_provider_name returns "Google Gemini" or "OpenAI" for a
\* registered model, according to its endpoint; for any other argument it
\* returns a provider whose host occurs in the argument, and "Other" exactly
\* when neither host occurs; it returns one of the three names for every
\* argument.
C17_ProviderBySubstring ==
    op = "get_provider_name" =>
        LET m == cli.model
            hasGemini == contains(m, GEMINI_HOST)
            hasOpenAi == contains(m, OPENAI_HOST)
        IN  /\ ret \in {GOOGLE_GEMINI, OPENAI, OTHER_PROVIDER}
            /\ m \in RegisteredModels =>
                /\ IsTableUrl(m, GEMINI_OPENAI_URL) => ret = GOOGLE_GEMINI
                /\ IsTableUrl(m, OPENAI_URL) => ret = OPENAI
                /\ ret # OTHER_PROVIDER
            /\ m \notin RegisteredModels =>
                /\ ret = GOOGLE_GEMINI => hasGemini
                /\ ret = OPENAI => hasOpenAi
                /\ ret = OTHER_PROVIDER <=> (~hasGemini /\ ~hasOpenAi)

\* an argument that is no model and no endpoint, and holds the Gemini host
C17_Witness ==
    /\ op = "get_provider_name"
    /\ cli.model \notin RegisteredModels
    /\ cli.model # GEMINI_OPENAI_URL
    /\ contains(cli.model, GEMINI_HOST)
    /\ ~contains(cli.model, OPENAI_HOST)
    /\ ret = GOOGLE_GEMINI

\* C18: get_model_provider returns "OpenAI" or "Google Gemini" for every
\* registered model and "Unknown" for every other string, the strings that
\* hold the host of a known endpoint included.
C18_UnknownUnlessRegistered ==
    op = "get_model_provider" =>
        /\ cli.model \in RegisteredModels =>
            ret = ProviderOfRegistered(cli.model)
        /\ cli.model \notin RegisteredModels => ret = UNKNOWN

\* the OpenAI endpoint given as a model name
C18_Witness ==
    /\ op = "get_model_provider"
    /\ cli.model = OPENAI_URL
    /\ ret = UNKNOWN

(***************************************************************************)
(* The translator: one call of Translator::translate, and the reply of     *)
(* the client to the request it sends.                                     *)
(***************************************************************************)
\* a reply holds at most MaxChoices choices
MaxChoices == 3

\* the text of a failure of the client is made of at most MaxFragments of
\* the fragments below
MaxFragments == 2

PADDED_HELLO ==
    <<" ", "h", "e", "l", "l", "o", "\n">>
TranslateTexts == Blanks \cup {HELLO, PADDED_HELLO}

CUSTOM_PROMPT ==
    <<"T", "r", "a", "n", "s", "l", "a", "t", "e", " ", "t", "o", " ", "F", "r", "e", "n",
      "c", "h", ":">>
Prompts == {None, Some(CUSTOM_PROMPT), Some(<<>>)}

Translators ==
    {Translator(SK_TEST, OPENAI_URL, GPT_4),
     Translator(SK_TEST, CUSTOM_URL, UNKNOWN_MODEL)}

\* what a failure text may hold: the words the closure looks for, and words
\* it does not look for
ErrorFragments ==
    <<<<"m", "o", "d", "e", "l">>,
      <<"e", "n", "d", "p", "o", "i", "n", "t">>,
      <<"4", "0", "1">>,
      <<"a", "u", "t", "h", "e", "n", "t", "i", "c", "a", "t", "i", "o", "n">>,
      <<"4", "0", "4">>,
      <<"n", "o", "t", " ", "f", "o", "u", "n", "d">>,
      <<"4", "2", "9">>,
      <<"r", "a", "t", "e", " ", "l", "i", "m", "i", "t">>,
      <<"t", "i", "m", "e", "o", "u", "t">>,
      <<"c", "o", "n", "n", "e", "c", "t", "i", "o", "n">>,
      <<"N", "o", "t", " ", "F", "o", "u", "n", "d">>,
      <<"5", "0", "0">>>>

\* the fragments of the indices in I, in ascending order, with a space
\* between two of them
RECURSIVE ErrorText(_)
ErrorText(I) ==
    IF I = {}
    THEN <<>>
    ELSE LET i == CHOOSE k \in I : \A j \in I : k <= j
         IN  IF I = {i}
             THEN ErrorFragments[i]
             ELSE ErrorFragments[i] \o <<" ">> \o ErrorText(I \ {i})

ErrorTexts ==
    {ErrorText(I) : I \in {J \in SUBSET DOMAIN ErrorFragments :
                              Cardinality(J) \in 1..MaxFragments}}

\* choice.message.content
Contents ==
    {None, Some(<<>>), Some(<<" ">>), Some(<<"a">>), Some(<<" ", "b", " ">>)}
Choices == {[message |-> [content |-> c]] : c \in Contents}
ChoiceLists == UNION {[1..n -> Choices] : n \in 0..MaxChoices}

\* the Result of self.client.chat().create(req).await
Replies ==
    {Err(e) : e \in ErrorTexts} \cup {Ok([choices |-> cs]) : cs \in ChoiceLists}

InitTranslate ==
    /\ cli = [text |-> None, model |-> GPT_4, url |-> None, key |-> None,
              list_models |-> FALSE]
    /\ env = [n \in EnvNames |-> Unset]
    /\ op = "init"
    /\ ret = None
    /\ reads = {}
    /\ call \in [pc : {"start"}, self : Translators, text : TranslateTexts,
                 prompt : Prompts, reply : {None}, result : {None}]
    /\ sent = <<>>
    /\ once = Uninit
    /\ threads = NoThreads
    /\ proc = NoProcess

\* translate up to the await: it returns its error, or hands the request to
\* the client
Translate ==
    /\ call.pc = "start"
    /\ LET req == translate_request(call.self, call.text, call.prompt)
       IN  IF req.tag = "Err"
           THEN /\ call' = [call EXCEPT !.pc = "done", !.result = req]
                /\ sent' = sent
           ELSE /\ call' = [call EXCEPT !.pc = "awaiting"]
                /\ sent' = Append(sent, req.val)
    /\ op' = "translate"
    /\ UNCHANGED <<cli, env, ret, reads, once, threads, proc>>

\* Variant of TranslateAwait that sends the request again when the client
\* answers with a failure.
TranslateAwaitRetry ==
    /\ call.pc = "awaiting"
    /\ \E reply \in Replies :
         IF reply.tag = "Err" /\ Len(sent) < 2
         THEN /\ call' = [call EXCEPT !.reply = Some(reply)]
              /\ sent' = Append(sent, sent[1])
         ELSE /\ call' = [call EXCEPT !.pc = "done", !.reply = Some(reply),
                                      !.result = translate_response(call.self, reply)]
              /\ sent' = sent
    /\ UNCHANGED <<cli, env, op, ret, reads, once, threads, proc>>

\* translate from the await on: the client answers and translate returns
TranslateAwait ==
    /\ call.pc = "awaiting"
    /\ \E reply \in Replies :
         call' = [call EXCEPT !.pc = "done", !.reply = Some(reply),
                              !.result = translate_response(call.self, reply)]
    /\ UNCHANGED <<cli, env, op, ret, reads, sent, once, threads, proc>>

NextTranslate == Translate \/ TranslateAwait

SpecTranslate == InitTranslate /\ [][NextTranslate]_vars

\* the call has returned after a reply of the client
Replied == op = "translate" /\ call.pc = "done" /\ call.reply.tag = "Some"

\* the contents of the choices that are present and not empty, in order
RECURSIVE NonEmptyContents(_)
NonEmptyContents(choices) ==
    IF choices = <<>>
    THEN <<>>
    ELSE LET content == Head(choices).message.content
         IN  IF content.tag = "Some" /\ content.val # <<>>
             THEN <<content.val>> \o NonEmptyContents(Tail(choices))
             ELSE NonEmptyContents(Tail(choices))

\* the strings of v with one newline between two of them
RECURSIVE Lines(_)
Lines(v) ==
    IF v = <<>> THEN <<>>
    ELSE IF Len(v) = 1 THEN v[1]
    ELSE v[1] \o <<"\n">> \o Lines(Tail(v))

\* C11: when translate returns Ok after a successful response, the value is
\* the non-empty contents of the choices, in their order, with exactly one
\* newline between two consecutive ones, trimmed as a whole; a choice whose
\* content is empty or missing adds neither text nor a separator.
C11_NonEmptyContentsJoined ==
    (Replied /\ call.result.tag = "Ok") =>
        call.result.val = trim(Lines(NonEmptyContents(call.reply.val.val.choices)))

\* every content of the choices is missing, empty or whitespace only
AllContentsBlank(choices) ==
    \A i \in DOMAIN choices :
        LET content == choices[i].message.content
        IN  IF content.tag = "Some" THEN AllWhitespace(content.val) ELSE TRUE

\* C12: translate never returns Ok with an empty or whitespace-only string; a
\* response with no choice fails with the 'no translation results' error, a
\* response with choices whose contents are all missing, empty or whitespace
\* only fails with the 'translation result is empty' error, and the two
\* errors differ.
C12_NeverBlankResult ==
    /\ (op = "translate" /\ call.result.tag = "Ok") =>
           ~AllWhitespace(call.result.val)
    /\ (Replied /\ call.reply.val.tag = "Ok") =>
           LET choices == call.reply.val.val.choices
           IN  /\ choices = <<>> => call.result = Err(no_results_message)
               /\ (choices # <<>> /\ AllContentsBlank(choices)) =>
                      call.result = Err(empty_result_message)
    /\ no_results_message # empty_result_message

\* a response with a missing, an empty and a whitespace-only content
C12_Witness ==
    /\ Replied
    /\ call.reply.val =
           Ok([choices |-> <<[message |-> [content |-> None]],
                             [message |-> [content |-> Some(<<>>)]],
                             [message |-> [content |-> Some(<<" ">>)]]>>])
    /\ call.result = Err(empty_result_message)

\* C13: every request translate builds names the model of the translator and
\* holds exactly two messages: the prompt first (the caller's, or PROMPT when
\* there is none), the text second, as it was given.
C13_RequestShape ==
    op = "translate" =>
        /\ ~AllWhitespace(call.text) => Len(sent) = 1
        /\ \A i \in DOMAIN sent :
               /\ sent[i].model = call.self.model
               /\ Len(sent[i].messages) = 2
               /\ sent[i].messages[1].content =
                      (IF call.prompt.tag = "Some" THEN call.prompt.val ELSE PROMPT)
               /\ sent[i].messages[2].content = call.text

\* no prompt given and a text with whitespace around it
C13_Witness ==
    /\ op = "translate"
    /\ call.prompt = None
    /\ call.text = PADDED_HELLO
    /\ call.self.model = GPT_4
    /\ sent = <<[model |-> GPT_4,
                 messages |-> <<[role |-> "user", content |-> PROMPT],
                                [role |-> "user", content |-> PADDED_HELLO]>>]>>

\* C14: with an empty or whitespace-only text translate returns an error,
\* builds no request and calls the client not at all, whatever the prompt
\* and the translator are.
C14_BlankTextSendsNothing ==
    (op = "translate" /\ AllWhitespace(call.text)) =>
        /\ call.pc = "done"
        /\ call.result = Err(translate_text_empty_message)
        /\ call.reply = None
        /\ sent = <<>>

\* a whitespace-only text with a prompt of the caller
C14_Witness ==
    /\ op = "translate"
    /\ call.text = <<" ">>
    /\ call.prompt = Some(CUSTOM_PROMPT)
    /\ call.result = Err(translate_text_empty_message)
    /\ sent = <<>>

\* the client answered with a failure, and translate has returned
Failed == Replied /\ call.reply.val.tag = "Err"

\* the rules of the classification, in the order of the list:
\* 1 authentication, 2 not-found, 3 rate-limit, 4 network, 5 generic
RuleMatches(k, e) ==
    CASE k = 1 -> contains(e, <<"4", "0", "1">>) \/ contains(e, <<"a", "u", "t", "h", "e", "n", "t", "i", "c", "a", "t", "i", "o", "n">>)
      [] k = 2 -> contains(e, <<"4", "0", "4">>) \/ contains(e, <<"n", "o", "t", " ", "f", "o", "u", "n", "d">>)
      [] k = 3 -> contains(e, <<"4", "2", "9">>) \/ contains(e, <<"r", "a", "t", "e", " ", "l", "i", "m", "i", "t">>)
      [] k = 4 -> contains(e, <<"t", "i", "m", "e", "o", "u", "t">>) \/ contains(e, <<"c", "o", "n", "n", "e", "c", "t", "i", "o", "n">>)
      [] k = 5 -> TRUE

\* the earliest rule that matches
FirstMatch(e) == CHOOSE k \in 1..5 : RuleMatches(k, e) /\ \A j \in 1..(k - 1) : ~RuleMatches(j, e)

\* how the message of each classification begins
ClassPrefix ==
    <<<<"A", "u", "t", "h", "e", "n", "t", "i", "c", "a", "t", "i", "o", "n", " ", "f", "a",
        "i", "l", "e", "d", ":", " ">>,
      <<"M", "o", "d", "e", "l", " ", "o", "r", " ", "e", "n", "d", "p", "o", "i", "n", "t",
        " ", "n", "o", "t", " ", "f", "o", "u", "n", "d", ":", " ">>,
      <<"R", "a", "t", "e", " ", "l", "i", "m", "i", "t", " ", "e", "x", "c", "e", "e", "d",
        "e", "d", ":", " ">>,
      <<"N", "e", "t", "w", "o", "r", "k", " ", "e", "r", "r", "o", "r", ":", " ">>,
      <<"A", "P", "I", " ", "r", "e", "q", "u", "e", "s", "t", " ", "f", "a", "i", "l", "e",
        "d", ":", " ">>>>

\* the message of classification k
ClassMessage(k, e, model) ==
    CASE k = 1 -> authentication_failed_message(e)
      [] k = 2 -> not_found_message(e, model)
      [] k = 3 -> rate_limit_message(e)
      [] k = 4 -> network_error_message(e)
      [] k = 5 -> api_request_failed_message(e)

\* C19: the classification of a failure is an ordered list where the first
\* match wins: authentication ("401" or "authentication"), then not-found
\* ("404" or "not found"), then rate-limit ("429" or "rate limit"), then
\* network ("timeout" or "connection"), then the generic API failure; every
\* failure gets exactly one classification, the earliest that matches.
C19_FirstMatchWins ==
    Failed =>
        LET e == call.reply.val.err
        IN  /\ call.result.tag = "Err"
            /\ \A k \in 1..5 :
                   starts_with(call.result.err, ClassPrefix[k] \o e)
                       <=> k = FirstMatch(e)
            /\ call.result.err = ClassMessage(FirstMatch(e), e, call.self.model)

\* a failure that matches the first two rules
C19_Witness ==
    /\ Failed
    /\ call.reply.val.err = <<"4", "0", "1", " ", "4", "0", "4">>
    /\ call.result = Err(authentication_failed_message(call.reply.val.err))

\* the position of the last occurrence of pat in s, 0 when there is none
LastIndexOf(s, pat) ==
    LET at == {i \in 1..(Len(s) - Len(pat) + 1) : SubSeq(s, i, i + Len(pat) - 1) = pat}
    IN  IF at = {} THEN 0 ELSE CHOOSE i \in at : \A j \in at : j <= i

\* the message without the failure text it quotes
Advice(msg, e) ==
    LET i == LastIndexOf(msg, e)
    IN  IF i = 0 THEN msg
        ELSE SubSeq(msg, 1, i - 1) \o SubSeq(msg, i + Len(e), Len(msg))

\* the failure text names the model and not the endpoint
NamesModel(e) == contains(e, <<"m", "o", "d", "e", "l">>) /\ ~contains(e, <<"e", "n", "d", "p", "o", "i", "n", "t">>)
\* the failure text names the endpoint and not the model
NamesEndpoint(e) == contains(e, <<"e", "n", "d", "p", "o", "i", "n", "t">>) /\ ~contains(e, <<"m", "o", "d", "e", "l">>)

\* C20, as the claim states it: for a failure classified as not-found the
\* classifier tells a model that was not found from an endpoint that was not
\* found, and the two have different outcomes.
C20_ModelAndEndpointApart ==
    (Failed /\ FirstMatch(call.reply.val.err) = 2 /\ NamesModel(call.reply.val.err)) =>
        \A e2 \in ErrorTexts :
            (FirstMatch(e2) = 2 /\ NamesEndpoint(e2)) =>
                Advice(call.result.err, call.reply.val.err)
                    # Advice(api_error_message(e2, call.self.model), e2)

\* C20, amended: every failure classified as not-found gets the one "Model
\* or endpoint not found" message, which quotes the failure text and names
\* the model of the translator; apart from the text it quotes the message is
\* the same whether the failure names the model or the endpoint.
C20_OneNotFoundMessage ==
    (Failed /\ FirstMatch(call.reply.val.err) = 2) =>
        LET e == call.reply.val.err
        IN  /\ call.result = Err(not_found_message(e, call.self.model))
            /\ starts_with(call.result.err, ClassPrefix[2] \o e)
            /\ contains(call.result.err, <<"'">> \o call.self.model \o <<"'">>)
            /\ \A e2 \in ErrorTexts :
                   FirstMatch(e2) = 2 =>
                       Advice(call.result.err, e)
                           = Advice(api_error_message(e2, call.self.model), e2)

\* the endpoint was not found, and the message is the one of a model that
\* was not found
C20_Witness ==
    /\ Failed
    /\ call.reply.val.err = <<"e", "n", "d", "p", "o", "i", "n", "t", " ", "n", "o", "t", " ", "f", "o", "u", "n",
      "d">>
    /\ call.result = Err(not_found_message(call.reply.val.err, call.self.model))
    /\ Advice(call.result.err, call.reply.val.err)
           = Advice(api_error_message(<<"m", "o", "d", "e", "l", " ", "n", "o", "t", " ", "f", "o", "u", "n", "d">>,
                                      call.self.model),
                    <<"m", "o", "d", "e", "l", " ", "n", "o", "t", " ", "f", "o", "u", "n", "d">>)

\* C21: in every execution of translate at most one request is sent, a
\* request is sent only before anything has failed, and once translate has
\* returned (a failure at any step included) nothing is sent any more and
\* what it returned stays as it is.
C21_OneRequestFailuresTerminal ==
    /\ [](Len(sent) <= 1)
    /\ [][/\ sent' # sent => (call.pc = "start" /\ call.result = None)
          /\ call.result # None => (sent' = sent /\ call' = call)]_vars

\* the one request was sent and the client timed out
C21_Witness ==
    /\ Failed
    /\ call.reply.val.err = <<"t", "i", "m", "e", "o", "u", "t">>
    /\ call.result.tag = "Err"
    /\ Len(sent) = 1

\* C23: get_all_models returns one ModelConfig for every entry of the
\* registry, no name twice, in ascending order of provider and, within a
\* provider, of name; the provider of each is get_provider_name of its name
\* and its url is get_model_url of its name.
C23_AllModelsSorted ==
    op = "get_all_models" =>
        /\ Len(ret) = Len(MODEL_TO_URL)
        /\ {ret[i].name : i \in DOMAIN ret} = RegisteredModels
        /\ \A i, j \in DOMAIN ret : i # j => ret[i].name # ret[j].name
        /\ \A i \in DOMAIN ret :
               /\ ret[i].provider = get_provider_name(ret[i].name)
               /\ get_model_url(ret[i].name) = Some(ret[i].url)
        /\ \A i \in 1..(Len(ret) - 1) :
               \/ str_lt(ret[i].provider, ret[i + 1].provider)
               \/ /\ ret[i].provider = ret[i + 1].provider
                  /\ str_lt(ret[i].name, ret[i + 1].name)

\* the eleven models, the Gemini ones before the OpenAI ones
C23_Witness ==
    /\ op = "get_all_models"
    /\ Len(ret) = 11
    /\ ret[1].provider = GOOGLE_GEMINI
    /\ ret[Len(ret)].provider = OPENAI
    /\ ret[Len(ret)].url = OPENAI_URL

\* C25: when validate returns Ok and list_models is FALSE, resolve_api_key
\* and resolve_url return Ok for the same arguments and environment, and the
\* text is present and holds a character that is not whitespace.
C25_ValidImpliesResolvable ==
    (op = "validate" /\ ~cli.list_models /\ ret.ret.tag = "Ok") =>
        /\ resolve_api_key(cli, env).ret.tag = "Ok"
        /\ \A it \in TriedCases : resolve_url(cli, it.iter, it.piter).tag = "Ok"
        /\ ~TextMissingOrBlank(cli)

\* a translation run that is valid thanks to the variable of the model
C25_Witness ==
    /\ op = "validate"
    /\ ~cli.list_models
    /\ ret.ret = Ok(Unit)
    /\ cli.key = None
    /\ cli.url = None
    /\ cli.model = GPT_4
    /\ cli.text = Some(HELLO)
    /\ env[OPENAI_API_KEY] = SetTo(SK_TEST)

\* C26: with an explicit URL, a model that is not in the registry and no
\* explicit key, a translation run (list_models FALSE, a text that is not
\* blank) fails validation with the 'cannot determine' error of
\* resolve_api_key, wrapped, whatever the environment holds.
C26_CustomEndpointNeedsKey ==
    (op = "validate" /\ ~cli.list_models /\ ~TextMissingOrBlank(cli)
        /\ cli.url.tag = "Some" /\ cli.key.tag = "None"
        /\ cli.model \notin RegisteredModels) =>
        ret.ret = Err(key_validation_message(env_var_undetermined_message(cli.model)))

(***************************************************************************)
(* The registry under concurrent first access: every thread calls          *)
(* get_model_url, which takes the table from the OnceLock with             *)
(* get_or_init and looks its model up.                                     *)
(***************************************************************************)
\* the number of threads
NThreads == 3

\* the models the threads look up
Lookups == {GPT_4, UNKNOWN_MODEL}

InitOnce ==
    /\ cli = [text |-> None, model |-> GPT_4, url |-> None, key |-> None,
              list_models |-> FALSE]
    /\ env = [n \in EnvNames |-> Unset]
    /\ op = "init"
    /\ ret = None
    /\ reads = {}
    /\ call = NoCall
    /\ sent = <<>>
    /\ once = Uninit
    /\ threads \in [1..NThreads ->
                       [pc : {"call"}, model : Lookups, map : {None}, url : {None}]]
    /\ proc = NoProcess

\* Variant of GetOrInit where a thread that finds the closure running runs
\* it too.
GetOrInitRacy(t) ==
    /\ threads[t].pc = "call"
    /\ IF once.state = "Complete"
       THEN /\ threads' = [threads EXCEPT ![t].pc = "have_map",
                                          ![t].map = Some(once.value)]
            /\ once' = once
       ELSE /\ threads' = [threads EXCEPT ![t].pc = "closure"]
            /\ once' = [once EXCEPT !.state = "Running"]
    /\ UNCHANGED <<cli, env, op, ret, reads, call, sent, proc>>

\* MODEL_TO_URL.get_or_init(..), up to the closure: a thread that finds the
\* value takes it; the first thread that finds none is the one to run the
\* closure; a thread that finds the closure running waits (it has no step)
GetOrInit(t) ==
    /\ threads[t].pc = "call"
    /\ once.state # "Running"
    /\ IF once.state = "Complete"
       THEN /\ threads' = [threads EXCEPT ![t].pc = "have_map",
                                          ![t].map = Some(once.value)]
            /\ once' = once
       ELSE /\ threads' = [threads EXCEPT ![t].pc = "closure"]
            /\ once' = [once EXCEPT !.state = "Running"]
    /\ UNCHANGED <<cli, env, op, ret, reads, call, sent, proc>>

\* the closure builds the HashMap, get_or_init stores it and returns it
RunClosure(t) ==
    /\ threads[t].pc = "closure"
    /\ once' = [state |-> "Complete", runs |-> once.runs + 1,
                value |-> get_model_to_url]
    /\ threads' = [threads EXCEPT ![t].pc = "have_map",
                                  ![t].map = Some(get_model_to_url)]
    /\ UNCHANGED <<cli, env, op, ret, reads, call, sent, proc>>

\* get_model_url: model_to_url.get(model).map(..)
MapGet(t) ==
    /\ threads[t].pc = "have_map"
    /\ LET model_to_url == threads[t].map.val
       IN  threads' = [threads EXCEPT
               ![t].pc = "done",
               ![t].url = IF threads[t].model \in DOMAIN model_to_url
                          THEN Some(model_to_url[threads[t].model])
                          ELSE None]
    /\ UNCHANGED <<cli, env, op, ret, reads, call, sent, once, proc>>

NextOnce ==
    \E t \in 1..NThreads : GetOrInit(t) \/ RunClosure(t) \/ MapGet(t)

SpecOnce == InitOnce /\ [][NextOnce]_vars

\* m is the whole table: the 11 models, each with its endpoint
IsWholeTable(m) ==
    /\ Cardinality(DOMAIN m) = 11
    /\ \A i \in DOMAIN MODEL_TO_URL : MODEL_TO_URL[i][1] \in DOMAIN m
    /\ \A i \in DOMAIN MODEL_TO_URL : m[MODEL_TO_URL[i][1]] = MODEL_TO_URL[i][2]

\* C22: the registry is initialised at most once in a process, also when
\* the first accesses come from several threads at the same time; once
\* initialised it is never changed; and every reader, in every interleaving,
\* sees the same whole table of 11 models.
C22_InitialisedOnce ==
    /\ [](/\ once.runs <= 1
          /\ \A t \in DOMAIN threads :
                 threads[t].map.tag = "Some" =>
                     /\ once.state = "Complete"
                     /\ threads[t].map.val = once.value
                     /\ IsWholeTable(threads[t].map.val))
    /\ [][once.state = "Complete" => once' = once]_vars

\* every thread has looked its model up, and the closure ran once
C22_Witness ==
    /\ once.runs = 1
    /\ Len(threads) >= 2
    /\ \A t \in DOMAIN threads : threads[t].pc = "done"
    /\ \E t \in DOMAIN threads : threads[t].url = Some(OPENAI_URL)
    /\ \E t \in DOMAIN threads : threads[t].url = None

(***************************************************************************)
(* main.rs: the binary.  main is split where it waits for send().          *)
(***************************************************************************)
\* default_value_t of Cli.model
DEFAULT_MODEL ==
    <<"g", "e", "m", "i", "n", "i", "-", "2", ".", "5", "-", "f", "l", "a", "s", "h", "-",
      "l", "i", "t", "e", "-", "p", "r", "e", "v", "i", "e", "w", "-", "0", "6", "-", "1",
      "7">>

\* let prompt
MAIN_PROMPT ==
    <<"U+4F60", "U+662F", "U+4E00", "U+4E2A", "U+6781", "U+7B80", "U+7FFB", "U+8BD1",
      "U+5DE5", "U+5177", "U+FF0C", "U+63A5", "U+4E0B", "U+6765", "U+6211", "U+5C06",
      "U+8F93", "U+5165", "U+4E00", "U+6BB5", "U+5185", "U+5BB9", "U+FF0C", "U+8BF7",
      "U+6309", "U+7167", "U+4EE5", "U+4E0B", "U+89C4", "U+5219", "U+5C06", "U+5B83",
      "U+7FFB", "U+8BD1", "U+FF1A", "1", "U+3001", "U+5982", "U+679C", "U+8F93", "U+5165",
      "U+5185", "U+5BB9", "U+662F", "U+4E2D", "U+6587", "U+5219", "U+7FFB", "U+8BD1",
      "U+6210", "U+82F1", "U+6587", "U+FF0C", "U+53CD", "U+4E4B", "U+4EA6", "U+7136",
      "U+3002", "2", "U+3001", "U+4EC5", "U+8F93", "U+51FA", "U+7FFB", "U+8BD1", "U+540E",
      "U+7684", "U+5185", "U+5BB9", "U+FF0C", "U+4E0D", "U+8981", "U+643A", "U+5E26",
      "U+5176", "U+4ED6", "U+5185", "U+5BB9", "U+3002", "3", "U+3001", "U+5982", "U+679C",
      "U+7FFB", "U+8BD1", "U+540E", "U+7684", "U+5185", "U+5BB9", "U+662F", "U+5355",
      "U+4E2A", "U+8BCD", "U+8BED", "U+FF0C", "U+5219", "U+9996", "U+5B57", "U+6BCD",
      "U+4E0D", "U+9700", "U+8981", "U+5927", "U+5199", "U+3002">>

\* GeminiReq::from(vec![Content::from(vec![Part::from(format!(..))])])
main_contents(text) ==
    [contents |-> <<[parts |-> <<[text |-> MAIN_PROMPT
                                      \o <<"\n", "\n">>
                                      \o text]>>]>>]

main_url(model) ==
    <<"h", "t", "t", "p", "s", ":", "/", "/", "g", "e", "n", "e", "r", "a", "t", "i", "v",
      "e", "l", "a", "n", "g", "u", "a", "g", "e", ".", "g", "o", "o", "g", "l", "e", "a",
      "p", "i", "s", ".", "c", "o", "m", "/", "v", "1", "b", "e", "t", "a", "/", "m", "o",
      "d", "e", "l", "s", "/">>
    \o model
    \o <<":", "g", "e", "n", "e", "r", "a", "t", "e", "C", "o", "n", "t", "e", "n", "t">>

\* Variant of main_api_key that looks at GOOGLE_AI_API_KEY before the key of
\* the command line.
main_api_key_env_first(c, e) ==
    LET v == env_var(e, GOOGLE_AI_API_KEY)
    IN  IF v.tag = "Ok"
        THEN [ret |-> Ok(v.val), reads |-> {GOOGLE_AI_API_KEY}]
        ELSE IF c.key.tag = "Some"
        THEN [ret |-> Ok(c.key.val), reads |-> {GOOGLE_AI_API_KEY}]
        ELSE [ret |-> Err(v.err), reads |-> {GOOGLE_AI_API_KEY}]

\* let api_key = match cli.key { .. }: the key, or the error main exits on;
\* reads: the environment variables read on the way
main_api_key(c, e) ==
    IF c.key.tag = "Some"
    THEN [ret |-> Ok(c.key.val), reads |-> {}]
    ELSE LET v == env_var(e, GOOGLE_AI_API_KEY)
         IN  IF v.tag = "Ok"
             THEN [ret |-> Ok(v.val), reads |-> {GOOGLE_AI_API_KEY}]
             ELSE [ret |-> Err(v.err), reads |-> {GOOGLE_AI_API_KEY}]

\* client.post(&url).query(&[("key", api_key)]).json(&contents)
main_request(c, api_key) ==
    [url |-> main_url(c.model),
     query |-> <<<<<<"k", "e", "y">>, api_key>>>>,
     json |-> main_contents(c.text)]

\* the texts main writes to the standard error
KEY_ERROR_TEXT ==
    <<"U+83B7", "U+53D6", "K", "e", "y", "U+9519", "U+8BEF", ":", " ">>
STATUS_ERROR_TEXT ==
    <<"U+72B6", "U+6001", "U+7801", "U+9519", "U+8BEF">>
RESPONSE_ERROR_TEXT ==
    <<"U+54CD", "U+5E94", "U+9519", "U+8BEF", ":", " ">>

\* what main does with the result of send(): what it prints, what it writes
\* to the standard error, whether it panics (an unwrap on a body that is no
\* GeminiRes, on no candidate or on no part), and its exit status
main_response(res) ==
    IF res.tag = "Err"
    THEN [stdout |-> <<>>, panic |-> FALSE, exit |-> 1,
          stderr |-> <<[text |-> RESPONSE_ERROR_TEXT, error |-> Some(res.err)]>>]
    ELSE IF res.val.status # 200
    THEN [stdout |-> <<>>, panic |-> FALSE, exit |-> 1,
          stderr |-> <<[text |-> STATUS_ERROR_TEXT, error |-> None]>>]
    ELSE LET body == res.val.body
         IN  IF body.tag = "Invalid"
             THEN [stdout |-> <<>>, panic |-> TRUE, exit |-> 101, stderr |-> <<>>]
             ELSE IF body.candidates = <<>>
             THEN [stdout |-> <<>>, panic |-> TRUE, exit |-> 101, stderr |-> <<>>]
             ELSE IF body.candidates[1].content.parts = <<>>
             THEN [stdout |-> <<>>, panic |-> TRUE, exit |-> 101, stderr |-> <<>>]
             ELSE [stdout |-> <<body.candidates[1].content.parts[1].text>>,
                   panic |-> FALSE, exit |-> 0, stderr |-> <<>>]

\* the command lines of the binary
MainClis == [text : {HELLO, <<>>}, model : {DEFAULT_MODEL, GPT_4}, key : Keys]

\* the bodies of a response
HOLA ==
    <<"h", "o", "l", "a">>
Candidate(texts) == [content |-> [parts |-> [i \in DOMAIN texts |-> [text |-> texts[i]]]]]
Bodies ==
    {[tag |-> "Invalid"]}
        \cup {[tag |-> "GeminiRes", candidates |-> cs] :
                 cs \in {<<>>, <<Candidate(<<>>)>>, <<Candidate(<<HOLA>>)>>,
                         <<Candidate(<<HOLA, HELLO>>), Candidate(<<HELLO>>)>>,
                         <<Candidate(<<>>), Candidate(<<HOLA>>)>>}}

\* the results of send(): a transport error, given by its text, or a response
SendResults ==
    {Err(e) : e \in {<<"c", "o", "n", "n", "e", "c", "t", "i", "o", "n", " ", "r", "e", "f", "u", "s", "e",
                        "d">>,
                     <<"o", "p", "e", "r", "a", "t", "i", "o", "n", " ", "t", "i", "m", "e", "d", " ", "o",
                        "u", "t">>}}
        \cup {Ok([status |-> st, body |-> b]) :
                 st \in {200, 201, 400, 401, 404, 429, 500}, b \in Bodies}

InitMain ==
    /\ cli = [text |-> None, model |-> GPT_4, url |-> None, key |-> None,
              list_models |-> FALSE]
    /\ env \in {e \in Envs : e[OPENAI_API_KEY] = Unset}
    /\ op = "init"
    /\ ret = None
    /\ reads = {}
    /\ call = NoCall
    /\ sent = <<>>
    /\ once = Uninit
    /\ threads = NoThreads
    /\ proc \in [pc : {"start"}, cli : MainClis, res : {None}, stdout : {<<>>},
                 stderr : {<<>>}, panic : {FALSE}, exit : {None}]

\* main up to send(): it exits without a key, or sends the request
MainSend ==
    /\ proc.pc = "start"
    /\ LET api_key == main_api_key(proc.cli, env)
       IN  /\ reads' = api_key.reads
           /\ IF api_key.ret.tag = "Err"
              THEN /\ proc' = [proc EXCEPT
                          !.pc = "exited", !.exit = Some(1),
                          !.stderr = <<[text |-> KEY_ERROR_TEXT,
                                        error |-> Some(api_key.ret.err)]>>]
                   /\ sent' = sent
              ELSE /\ proc' = [proc EXCEPT !.pc = "sending"]
                   /\ sent' = Append(sent, main_request(proc.cli, api_key.ret.val))
    /\ UNCHANGED <<cli, env, op, ret, call, once, threads>>

\* main from the result of send() on
MainResult ==
    /\ proc.pc = "sending"
    /\ \E res \in SendResults :
         LET r == main_response(res)
         IN  proc' = [proc EXCEPT !.pc = "exited", !.res = Some(res),
                                  !.stdout = r.stdout, !.stderr = r.stderr,
                                  !.panic = r.panic, !.exit = Some(r.exit)]
    /\ UNCHANGED <<cli, env, op, ret, reads, call, sent, once, threads>>

NextMain == MainSend \/ MainResult

SpecMain == InitMain /\ [][NextMain]_vars

\* C24: in main the key given with -k is used in preference to
\* GOOGLE_AI_API_KEY; when there is neither, the process exits with status 1
\* before any request is sent; and a transport error or a response whose
\* status is not 200 ends the process with a status that is not 0 and with
\* no translation printed.
C24_MainKeyAndFailures ==
    proc.pc \in {"sending", "exited"} =>
        /\ proc.cli.key.tag = "Some" =>
               /\ reads = {}
               /\ Len(sent) = 1
               /\ sent[1].query = <<<<<<"k", "e", "y">>, proc.cli.key.val>>>>
        /\ (proc.cli.key.tag = "None" /\ env[GOOGLE_AI_API_KEY].tag # "Set") =>
               /\ proc.pc = "exited"
               /\ proc.exit = Some(1)
               /\ sent = <<>>
        /\ (proc.cli.key.tag = "None" /\ env[GOOGLE_AI_API_KEY].tag = "Set") =>
               /\ Len(sent) = 1
               /\ sent[1].query =
                      <<<<<<"k", "e", "y">>, env[GOOGLE_AI_API_KEY].val>>>>
        /\ (proc.res.tag = "Some"
               /\ (proc.res.val.tag = "Err" \/ proc.res.val.val.status # 200)) =>
               /\ proc.pc = "exited"
               /\ proc.exit.tag = "Some"
               /\ proc.exit.val # 0
               /\ proc.stdout = <<>>

\* -k given while GOOGLE_AI_API_KEY holds another key, and the answer is 404
C24_Witness ==
    /\ proc.pc = "exited"
    /\ proc.cli.key = Some(<<"X">>)
    /\ env[GOOGLE_AI_API_KEY] = SetTo(SK_TEST)
    /\ sent = <<main_request(proc.cli, <<"X">>)>>
    /\ proc.res.tag = "Some"
    /\ proc.res.val.tag = "Ok"
    /\ proc.res.val.val.status = 404
    /\ proc.exit = Some(1)
    /\ proc.stdout = <<>>
====
